---- MODULE Spec2Model ----
(***************************************************************************)
(* Deployment orchestrator of the cortex control plane: the deployment     *)
(* record store, the deploy / destroy / status endpoints, their background *)
(* tasks and the Pulumi webhook handler, in the two variants found in the  *)
(* repository (api/routes/webhooks.py and automation/api/routes/           *)
(* webhooks.py).                                                           *)
(*                                                                         *)
(* Strings are sequences of tokens: names and stack identifiers are        *)
(* sequences of one-character strings, messages are sequences of text      *)
(* fragments, so that f-string formatting is concatenation and split /     *)
(* rsplit / strip are computed on the characters.                          *)
(***************************************************************************)
EXTENDS Integers, Sequences, FiniteSets, Bags, TLC

VARIABLES
    variant,      \* which webhook module the process runs: "api" | "automation"
    secret,       \* settings.pulumi_webhook_secret
    configs,      \* config_storage: tenant ids that have a stored resolved config
    db,           \* customer_deployments table: sequence of rows, in insertion order
    clock,        \* datetime.now(timezone.utc)
    tasks,        \* coroutines in flight: background tasks and suspended handlers
    engine,       \* Pulumi Deployments: number of runs accepted so far
    last,         \* the request or coroutine step being handled, until it is acknowledged
    resp,         \* the response it produced (NoResp when it produced none)
    arg,          \* the arguments of the function under study (pure functions)
    ret,          \* what it returned, NoRet before the call
    addons,       \* the <customer_id>.addons.json files under settings.config_storage_path
    ssm,          \* SSM Run Command: the commands sent so far, in order
    time          \* wall-clock time in seconds, as asyncio.sleep sees it

vars == <<variant, secret, configs, db, clock, tasks, engine, last, resp, arg, ret,
          addons, ssm, time>>

\* the variables of the pure-function studies and of the addon installer, untouched by
\* the steps of the deployment service
study == <<arg, ret, addons, ssm, time>>

----------------------------------------------------------------------------
(* Bounds *)

MaxTasks == 2
MaxClock == 4

----------------------------------------------------------------------------
(* Values *)

None == <<"None">>
EmptyStr == <<>>

Falsy(v) == v = None \/ v = EmptyStr

CustomerIds == {<<"a">>, <<"b">>}
Environments == {<<"d">>}

PENDING == "pending"
IN_PROGRESS == "in_progress"
SUCCEEDED == "succeeded"
FAILED == "failed"
DESTROYING == "destroying"
DESTROYED == "destroyed"

DeploymentStatus == {PENDING, IN_PROGRESS, SUCCEEDED, FAILED, DESTROYING, DESTROYED}

\* the gate with FAILED let through
DEPLOYMENT_IN_PROGRESS_STATES_and_failed == {PENDING, IN_PROGRESS, FAILED}

DEPLOYMENT_IN_PROGRESS_STATES == {PENDING, IN_PROGRESS}

DEPLOYMENT_ALLOW_SUCCEEDED_WEBHOOK == {PENDING, IN_PROGRESS, SUCCEEDED}

\* json.dumps of the stack outputs the engine can return
EngineOutputs == {<<"{}">>, <<"{access_node}">>}

\* str(e) of an exception raised by a Pulumi client call
EngineError == <<"engine error">>

\* the "message" field of a webhook: absent/empty or a text
WebhookMessages == {EmptyStr, <<"boom">>}

----------------------------------------------------------------------------
(* String helpers: str.split, str.rsplit(sep, 1), str.strip, f"{a}-{b}" *)

FirstIndex(s, ch) ==
    IF \E i \in 1..Len(s) : s[i] = ch
    THEN CHOOSE i \in 1..Len(s) : s[i] = ch /\ \A j \in 1..(i - 1) : s[j] # ch
    ELSE 0

LastIndex(s, ch) ==
    IF \E i \in 1..Len(s) : s[i] = ch
    THEN CHOOSE i \in 1..Len(s) : s[i] = ch /\ \A j \in (i + 1)..Len(s) : s[j] # ch
    ELSE 0

RECURSIVE Split(_, _)
Split(s, ch) ==
    LET i == FirstIndex(s, ch) IN
    IF i = 0 THEN <<s>>
    ELSE <<SubSeq(s, 1, i - 1)>> \o Split(SubSeq(s, i + 1, Len(s)), ch)

RSplit1(s, ch) ==
    LET i == LastIndex(s, ch) IN
    IF i = 0 THEN <<s>>
    ELSE <<SubSeq(s, 1, i - 1), SubSeq(s, i + 1, Len(s))>>

RECURSIVE Strip(_)
Strip(s) ==
    IF s = <<>> THEN s
    ELSE IF Head(s) = " " THEN Strip(Tail(s))
    ELSE IF s[Len(s)] = " " THEN Strip(SubSeq(s, 1, Len(s) - 1))
    ELSE s

\* f"{customer_id}-{environment}"
StackName(customer_id, environment) == customer_id \o <<"-">> \o environment

----------------------------------------------------------------------------
(* api/database.py *)

\* the lookup on the customer_id column instead of stack_name
FirstRow_by_customer(rows, stack_name) ==
    IF \E i \in 1..Len(rows) : rows[i].customer_id = stack_name
    THEN CHOOSE i \in 1..Len(rows) : rows[i].customer_id = stack_name
    ELSE 0

\* .filter_by(stack_name=stack_name).first(): index of the first matching row, 0 for None
FirstRow(rows, stack_name) ==
    IF \E i \in 1..Len(rows) : rows[i].stack_name = stack_name
    THEN CHOOSE i \in 1..Len(rows) :
            /\ rows[i].stack_name = stack_name
            /\ \A j \in 1..(i - 1) : rows[j].stack_name # stack_name
    ELSE 0

get_deployment(rows, customer_id, environment) ==
    FirstRow(rows, StackName(customer_id, environment))

\* the row create_deployment inserts; id is the autoincrement primary key
NewRecord(rows, customer_id, environment, now) ==
    [id |-> Len(rows) + 1,
     customer_id |-> customer_id,
     environment |-> environment,
     stack_name |-> StackName(customer_id, environment),
     status |-> PENDING,
     pulumi_deployment_id |-> None,
     outputs |-> None,
     error_message |-> None,
     created_at |-> now,
     updated_at |-> now]

\* raises ValueError when a row with the stack name exists
create_deployment_raises(rows, customer_id, environment) ==
    FirstRow(rows, StackName(customer_id, environment)) # 0

create_deployment(rows, customer_id, environment, now) ==
    IF create_deployment_raises(rows, customer_id, environment)
    THEN rows
    ELSE Append(rows, NewRecord(rows, customer_id, environment, now))

\* None arguments leave the column as it is; an empty run id is not stored either
update_deployment_status(rows, stack_name, status, pulumi_deployment_id, outputs, error_message, now) ==
    LET i == FirstRow(rows, stack_name) IN
    IF i = 0 THEN rows
    ELSE [rows EXCEPT ![i] =
            [@ EXCEPT !.status = status,
                      !.updated_at = now,
                      !.pulumi_deployment_id =
                          IF Falsy(pulumi_deployment_id) THEN @ ELSE pulumi_deployment_id,
                      !.outputs = IF outputs # None THEN outputs ELSE @,
                      !.error_message = IF error_message # None THEN error_message ELSE @]]

----------------------------------------------------------------------------
(* Requests, responses and coroutines *)

NoResp == [code |-> 0, received |-> FALSE, processed |-> FALSE, reason |-> "", status |-> ""]

HttpError(code, detail) ==
    [code |-> code, received |-> FALSE, processed |-> FALSE, reason |-> detail, status |-> ""]

DeploymentResponse(st) ==
    [code |-> 202, received |-> FALSE, processed |-> FALSE, reason |-> "", status |-> st]

\* {"received": True, **result}
WebhookResponse(processed, reason) ==
    [code |-> 200, received |-> TRUE, processed |-> processed, reason |-> reason, status |-> ""]

Request(kind, customer_id, environment, stack, operation, outcome, message) ==
    [kind |-> kind, customer_id |-> customer_id, environment |-> environment,
     stack |-> stack, operation |-> operation, outcome |-> outcome, message |-> message]

NoRequest == Request("", EmptyStr, EmptyStr, EmptyStr, "", "", EmptyStr)

\* a step of a coroutine: which one resumed, at which await, and how the awaited call ended
TaskStep(t, outcome) ==
    Request(t.kind, t.customer_id, t.environment, EmptyStr, t.pc, outcome, EmptyStr)

NoSnap == [status |-> "", pulumi_deployment_id |-> None]

Task(kind, customer_id, environment, pc, snap, result) ==
    [kind |-> kind, customer_id |-> customer_id, environment |-> environment,
     pc |-> pc, snap |-> snap, result |-> result]

\* the coroutines in flight form a bag: two of them may be at the same point with the
\* same locals
Running(ts) == BagToSet(ts)
InFlight(ts) == BagCardinality(ts)
Spawn(ts, t) == ts (+) SetToBag({t})
Finish(ts, t) == ts (-) SetToBag({t})

\* how many background tasks of a kind are scheduled or running
Background(ts, kind) ==
    BagCardinality([t \in {u \in BagToSet(ts) : u.kind = kind} |-> ts[t]])

\* background_tasks.add_task(...) / asyncio.create_task(...)
add_task(ts, kind, customer_id, environment) ==
    Spawn(ts, Task(kind, customer_id, environment, "start", NoSnap, None))

\* the coroutine moves to its next await
Goto(ts, t, pc) == Spawn(Finish(ts, t), [t EXCEPT !.pc = pc])

RunId(operation, n) == <<operation, n>>


----------------------------------------------------------------------------
(* Initial state: empty table, no coroutine, either webhook module, a webhook secret set *)

NoArg == <<>>
NoRet == <<>>

\* the addon names _save_addon_state is called with
AddonNames == {"all", "argocd"}

\* state.get(addon_name) of a name that was never saved, or of a file that does not exist
NoAddonState == [last_command_id |-> 0, instance_id |-> None, triggered_at |-> 0]

NoAddonFiles == [c \in CustomerIds |-> [n \in AddonNames |-> NoAddonState]]

\* no addon state file written, no command sent
NothingInstalled ==
    /\ addons = NoAddonFiles
    /\ ssm = <<>>
    /\ time = 0

\* the service as it starts
Started ==
    /\ variant \in {"api", "automation"}
    /\ secret = <<"s">>
    /\ configs = {<<"a">>}
    /\ db = <<>>
    /\ clock = 0
    /\ tasks = EmptyBag
    /\ engine = 0
    /\ last = NoRequest
    /\ resp = NoResp

Init ==
    /\ Started
    /\ NothingInstalled
    /\ arg = NoArg
    /\ ret = NoRet

----------------------------------------------------------------------------
(* automation/api/routes/deployments.py: POST /deployments/{customer_id} *)

\* the check on IN_PROGRESS alone
deploy_conflict_in_progress(rows, existing) ==
    IF existing = 0 THEN ""
    ELSE IF rows[existing].status = IN_PROGRESS THEN "already in progress"
    ELSE ""

\* the two status checks on an existing record: the detail of the 409, or "" to go on
deploy_conflict(rows, existing) ==
    IF existing = 0 THEN ""
    ELSE IF rows[existing].status = IN_PROGRESS THEN "already in progress"
    ELSE IF rows[existing].status = DESTROYING THEN "being destroyed"
    ELSE ""

deploy(customer_id, environment) ==
    LET stack_name == StackName(customer_id, environment)
        existing == get_deployment(db, customer_id, environment)
    IN
    /\ IF customer_id \notin configs
       THEN /\ resp' = HttpError(404, "configuration not found")
            /\ UNCHANGED <<db, clock, tasks>>
       ELSE IF deploy_conflict(db, existing) # ""
       THEN /\ resp' = HttpError(409, deploy_conflict(db, existing))
            /\ UNCHANGED <<db, clock, tasks>>
       ELSE IF existing = 0 /\ create_deployment_raises(db, customer_id, environment)
       THEN /\ resp' = HttpError(409, "already exists")
            /\ UNCHANGED <<db, clock, tasks>>
       ELSE /\ clock < MaxClock
            /\ InFlight(tasks) < MaxTasks
            /\ clock' = clock + 1
            /\ db' = IF existing = 0
                     THEN create_deployment(db, customer_id, environment, clock')
                     ELSE update_deployment_status(db, stack_name, PENDING, None, None, None, clock')
            /\ tasks' = add_task(tasks, "run_deployment", customer_id, environment)
            /\ resp' = DeploymentResponse(PENDING)
    /\ UNCHANGED <<variant, secret, configs, engine>>

(* run_deployment: the background task, one action per stretch between awaits *)

run_deployment_start(t) ==
    /\ t.kind = "run_deployment" /\ t.pc = "start"
    /\ clock < MaxClock
    /\ clock' = clock + 1
    /\ db' = update_deployment_status(db, StackName(t.customer_id, t.environment),
                                      IN_PROGRESS, None, None, None, clock')
    /\ tasks' = Goto(tasks, t, "create_stack")
    /\ resp' = NoResp
    /\ UNCHANGED <<variant, secret, configs, engine>>

\* create_stack without its own try/except: a raise reaches the outer handler
run_deployment_create_stack_fatal(t, raised) ==
    /\ t.kind = "run_deployment" /\ t.pc = "create_stack"
    /\ resp' = NoResp
    /\ IF raised
       THEN /\ clock < MaxClock
            /\ clock' = clock + 1
            /\ db' = update_deployment_status(db, StackName(t.customer_id, t.environment),
                                              FAILED, None, None, EngineError, clock')
            /\ tasks' = Finish(tasks, t)
       ELSE /\ tasks' = Goto(tasks, t, "configure_deployment_settings")
            /\ UNCHANGED <<db, clock>>
    /\ UNCHANGED <<variant, secret, configs, engine>>

\* await client.create_stack(...) returns or raises; "except Exception: pass"
run_deployment_create_stack(t, raised) ==
    /\ t.kind = "run_deployment" /\ t.pc = "create_stack"
    /\ tasks' = Goto(tasks, t, "configure_deployment_settings")
    /\ resp' = NoResp
    /\ UNCHANGED <<variant, secret, configs, db, clock, engine>>

\* await client.configure_deployment_settings(...) returns or raises
run_deployment_configure(t, raised) ==
    /\ t.kind = "run_deployment" /\ t.pc = "configure_deployment_settings"
    /\ resp' = NoResp
    /\ IF raised
       THEN /\ clock < MaxClock
            /\ clock' = clock + 1
            /\ db' = update_deployment_status(db, StackName(t.customer_id, t.environment),
                                              FAILED, None, None, EngineError, clock')
            /\ tasks' = Finish(tasks, t)
       ELSE /\ tasks' = Goto(tasks, t, "trigger_deployment")
            /\ UNCHANGED <<db, clock>>
    /\ UNCHANGED <<variant, secret, configs, engine>>

\* the trigger with its failure swallowed: a raise ends the task without a write
run_deployment_trigger_silent(t, raised) ==
    /\ t.kind = "run_deployment" /\ t.pc = "trigger_deployment"
    /\ resp' = NoResp
    /\ IF raised
       THEN /\ tasks' = Finish(tasks, t)
            /\ UNCHANGED <<db, clock, engine>>
       ELSE /\ engine' = engine + 1
            /\ tasks' = Spawn(Finish(tasks, t),
                               [t EXCEPT !.pc = "triggered", !.result = RunId("update", engine')])
            /\ UNCHANGED <<db, clock>>
    /\ UNCHANGED <<variant, secret, configs>>

\* client.trigger_deployment(operation="update"): the engine accepts the run, or the call raises
run_deployment_trigger(t, raised) ==
    /\ t.kind = "run_deployment" /\ t.pc = "trigger_deployment"
    /\ resp' = NoResp
    /\ IF raised
       THEN /\ clock < MaxClock
            /\ clock' = clock + 1
            /\ db' = update_deployment_status(db, StackName(t.customer_id, t.environment),
                                              FAILED, None, None, EngineError, clock')
            /\ tasks' = Finish(tasks, t)
            /\ UNCHANGED engine
       ELSE /\ engine' = engine + 1
            /\ tasks' = Spawn(Finish(tasks, t),
                               [t EXCEPT !.pc = "triggered", !.result = RunId("update", engine')])
            /\ UNCHANGED <<db, clock>>
    /\ UNCHANGED <<variant, secret, configs>>

\* the call has returned: deployment_id = result.get("id", ""), second IN_PROGRESS write
run_deployment_triggered(t) ==
    /\ t.kind = "run_deployment" /\ t.pc = "triggered"
    /\ clock < MaxClock
    /\ clock' = clock + 1
    /\ db' = update_deployment_status(db, StackName(t.customer_id, t.environment),
                                      IN_PROGRESS, t.result, None, None, clock')
    /\ tasks' = Finish(tasks, t)
    /\ resp' = NoResp
    /\ UNCHANGED <<variant, secret, configs, engine>>

(* automation/api/routes/deployments.py: POST /deployments/{customer_id}/{environment}/destroy *)

\* the checks without the one on DESTROYED
destroy_conflict_not_destroyed(rows, existing) ==
    IF rows[existing].status = IN_PROGRESS THEN "in progress"
    ELSE IF rows[existing].status = DESTROYING THEN "already being destroyed"
    ELSE ""

\* the three status checks on the record: the detail of the 409, or "" to go on
destroy_conflict(rows, existing) ==
    IF rows[existing].status = IN_PROGRESS THEN "in progress"
    ELSE IF rows[existing].status = DESTROYING THEN "already being destroyed"
    ELSE IF rows[existing].status = DESTROYED THEN "already destroyed"
    ELSE ""

destroy(customer_id, environment, confirm) ==
    LET existing == get_deployment(db, customer_id, environment) IN
    /\ IF ~confirm
       THEN /\ resp' = HttpError(422, "confirm must be true")
            /\ UNCHANGED tasks
       ELSE IF existing = 0
       THEN /\ resp' = HttpError(404, "deployment not found")
            /\ UNCHANGED tasks
       ELSE IF destroy_conflict(db, existing) # ""
       THEN /\ resp' = HttpError(409, destroy_conflict(db, existing))
            /\ UNCHANGED tasks
       ELSE /\ InFlight(tasks) < MaxTasks
            /\ tasks' = add_task(tasks, "run_destroy", customer_id, environment)
            /\ resp' = DeploymentResponse(DESTROYING)
    /\ UNCHANGED <<variant, secret, configs, db, clock, engine>>

(* run_destroy (deployments.py) and _trigger_auto_destroy (webhooks.py): the same three    *)
(* stretches, differing in the prefix of the error message                                *)

\* one prefix for both destroy tasks
DestroyFailurePrefix_same(kind) == <<"Destroy failed: ">>

DestroyFailurePrefix(kind) ==
    IF kind = "run_destroy" THEN <<"Destroy failed: ">> ELSE <<"Auto-destroy failed: ">>

destroy_task_start(t) ==
    /\ t.pc = "start"
    /\ clock < MaxClock
    /\ clock' = clock + 1
    /\ db' = update_deployment_status(db, StackName(t.customer_id, t.environment),
                                      DESTROYING, None, None, None, clock')
    /\ tasks' = Goto(tasks, t, "trigger_deployment")
    /\ resp' = NoResp
    /\ UNCHANGED <<variant, secret, configs, engine>>

destroy_task_trigger(t, raised) ==
    /\ t.pc = "trigger_deployment"
    /\ resp' = NoResp
    /\ IF raised
       THEN /\ clock < MaxClock
            /\ clock' = clock + 1
            /\ db' = update_deployment_status(db, StackName(t.customer_id, t.environment),
                                              FAILED, None, None,
                                              DestroyFailurePrefix(t.kind) \o EngineError, clock')
            /\ tasks' = Finish(tasks, t)
            /\ UNCHANGED engine
       ELSE /\ engine' = engine + 1
            /\ tasks' = Spawn(Finish(tasks, t),
                               [t EXCEPT !.pc = "triggered", !.result = RunId("destroy", engine')])
            /\ UNCHANGED <<db, clock>>
    /\ UNCHANGED <<variant, secret, configs>>

destroy_task_triggered(t) ==
    /\ t.pc = "triggered"
    /\ clock < MaxClock
    /\ clock' = clock + 1
    /\ db' = update_deployment_status(db, StackName(t.customer_id, t.environment),
                                      DESTROYING, t.result, None, None, clock')
    /\ tasks' = Finish(tasks, t)
    /\ resp' = NoResp
    /\ UNCHANGED <<variant, secret, configs, engine>>

run_destroy(t, raised) ==
    /\ t.kind = "run_destroy"
    /\ \/ ~raised /\ destroy_task_start(t)
       \/ destroy_task_trigger(t, raised)
       \/ ~raised /\ destroy_task_triggered(t)

_trigger_auto_destroy(t, raised) ==
    /\ t.kind = "_trigger_auto_destroy"
    /\ \/ ~raised /\ destroy_task_start(t)
       \/ destroy_task_trigger(t, raised)
       \/ ~raised /\ destroy_task_triggered(t)

run_deployment(t, raised) ==
    \/ ~raised /\ run_deployment_start(t)
    \/ run_deployment_create_stack(t, raised)
    \/ run_deployment_configure(t, raised)
    \/ run_deployment_trigger(t, raised)
    \/ ~raised /\ run_deployment_triggered(t)

----------------------------------------------------------------------------
(* api/routes/webhooks.py and automation/api/routes/webhooks.py *)

\* hmac.compare_digest(...) is the input sig_matches
_verify_pulumi_signature(sig_matches, sec) ==
    IF Falsy(sec)
    THEN (variant = "api")
    ELSE sig_matches

\* the part of the handler before request.json(): TRUE when the handler goes on
Verified(sig_matches) ==
    IF variant = "api"
    THEN Falsy(secret) \/ _verify_pulumi_signature(sig_matches, secret)
    ELSE ~Falsy(secret) /\ _verify_pulumi_signature(sig_matches, secret)

\* the api parser taking the last "/" part whatever the number of parts
_parse_stack_name_api_last_part(stack_fqn) ==
    LET parts == Split(stack_fqn, "/") IN
    IF Len(parts) = 0 THEN None
    ELSE LET stack_parts == RSplit1(parts[Len(parts)], "-") IN
         IF Len(stack_parts) # 2 THEN None
         ELSE <<stack_parts[1], stack_parts[2]>>

\* api: "org/project/stack-name"
_parse_stack_name_api(stack_fqn) ==
    LET parts == Split(stack_fqn, "/") IN
    IF Len(parts) # 3 THEN None
    ELSE LET stack_parts == RSplit1(parts[3], "-") IN
         IF Len(stack_parts) # 2 THEN None
         ELSE <<stack_parts[1], stack_parts[2]>>

\* automation: the stack name only
_parse_stack_name_automation(stack) ==
    LET stack_name == Strip(stack) IN
    IF stack_name = EmptyStr THEN None
    ELSE LET parts == RSplit1(stack_name, "-") IN
         IF Len(parts) # 2 \/ parts[1] = EmptyStr \/ parts[2] = EmptyStr THEN None
         ELSE <<parts[1], parts[2]>>

_parse_stack_name(stack) ==
    IF variant = "api" THEN _parse_stack_name_api(stack) ELSE _parse_stack_name_automation(stack)

\* the gate left open: an "update succeeded" event is handled whatever the status
SucceededGate_open == DeploymentStatus

\* the statuses in which an "update succeeded" event is handled
SucceededGate ==
    IF variant = "api" THEN DEPLOYMENT_IN_PROGRESS_STATES ELSE DEPLOYMENT_ALLOW_SUCCEEDED_WEBHOOK

SucceededIgnoredReason ==
    IF variant = "api" THEN "already processed" ELSE "ignored"

\* error_message or default
OrDefault(message, default) == IF Falsy(message) THEN default ELSE message

webhook_unauthorized(sig_matches) ==
    /\ ~Verified(sig_matches)
    /\ resp' = HttpError(401, "invalid webhook signature")
    /\ UNCHANGED <<variant, secret, configs, db, clock, tasks, engine>>

\* a webhook that changes nothing
Ignore(reason) ==
    /\ resp' = WebhookResponse(FALSE, reason)
    /\ UNCHANGED <<db, clock, tasks>>

_handle_deployment_failed(customer_id, environment, stack_name, error_message) ==
    /\ clock < MaxClock
    /\ InFlight(tasks) < MaxTasks
    /\ clock' = clock + 1
    /\ db' = update_deployment_status(db, stack_name, FAILED, None, None, error_message, clock')
    /\ tasks' = add_task(tasks, "_trigger_auto_destroy", customer_id, environment)
    /\ resp' = WebhookResponse(TRUE, "")

_handle_destroy_succeeded(stack_name) ==
    /\ clock < MaxClock
    /\ clock' = clock + 1
    /\ db' = update_deployment_status(db, stack_name, DESTROYED, None, EmptyStr, EmptyStr, clock')
    /\ resp' = WebhookResponse(TRUE, "")
    /\ UNCHANGED tasks

\* the failure recorded with the event's message alone
_handle_destroy_failed_bare(stack_name, error_message) ==
    /\ clock < MaxClock
    /\ clock' = clock + 1
    /\ db' = update_deployment_status(db, stack_name, FAILED, None, None, error_message, clock')
    /\ resp' = WebhookResponse(TRUE, "")
    /\ UNCHANGED tasks

_handle_destroy_failed(stack_name, error_message) ==
    /\ clock < MaxClock
    /\ clock' = clock + 1
    /\ db' = update_deployment_status(db, stack_name, FAILED, None, None,
                                      <<"Destroy failed: ">> \o error_message, clock')
    /\ resp' = WebhookResponse(TRUE, "")
    /\ UNCHANGED tasks

\* the handler suspends at "await client.get_stack_outputs(...)"; it answers when it resumes
_handle_deployment_succeeded_call(customer_id, environment, gate_status) ==
    /\ InFlight(tasks) < MaxTasks
    /\ tasks' = Spawn(tasks,
          Task("_handle_deployment_succeeded", customer_id, environment, "get_stack_outputs",
               [status |-> gate_status, pulumi_deployment_id |-> None], None))
    /\ resp' = NoResp
    /\ UNCHANGED <<db, clock>>

pulumi_deployment_webhook(stack, operation, deployment_status, message) ==
    LET parsed == _parse_stack_name(stack)
        customer_id == IF parsed = None THEN EmptyStr ELSE parsed[1]
        environment == IF parsed = None THEN EmptyStr ELSE parsed[2]
        stack_name == StackName(customer_id, environment)
        deployment == get_deployment(db, customer_id, environment)
    IN
    /\ \E sig_matches \in BOOLEAN : Verified(sig_matches)
    /\ IF stack = EmptyStr THEN Ignore("missing stack")
       ELSE IF parsed = None THEN Ignore("invalid stack format")
       ELSE IF deployment = 0 THEN Ignore("deployment not found")
       ELSE IF operation = "update" THEN
            IF deployment_status = "succeeded" THEN
                IF db[deployment].status \notin SucceededGate
                THEN Ignore(SucceededIgnoredReason)
                ELSE _handle_deployment_succeeded_call(customer_id, environment, db[deployment].status)
            ELSE IF deployment_status = "failed" THEN
                IF db[deployment].status \notin DEPLOYMENT_IN_PROGRESS_STATES
                THEN Ignore("already processed")
                ELSE _handle_deployment_failed(customer_id, environment, stack_name,
                                               OrDefault(message, <<"Deployment failed">>))
            ELSE Ignore("unhandled status")
       ELSE IF operation = "destroy" THEN
            IF deployment_status = "succeeded" THEN
                IF db[deployment].status # DESTROYING
                THEN Ignore("ignored, expected destroying")
                ELSE _handle_destroy_succeeded(stack_name)
            ELSE IF deployment_status = "failed" THEN
                IF db[deployment].status # DESTROYING
                THEN Ignore("ignored, expected destroying")
                ELSE _handle_destroy_failed(stack_name, OrDefault(message, <<"Destroy failed">>))
            ELSE Ignore("unhandled status")
       ELSE IF operation = "preview" THEN Ignore("preview operations are ignored")
       ELSE Ignore("unhandled operation")
    /\ UNCHANGED <<variant, secret, configs, engine>>

\* the handler going on to the write and the addon install whether or not the fetch raised
_handle_deployment_succeeded_unguarded(t, outputs, raised) ==
    /\ t.kind = "_handle_deployment_succeeded" /\ t.pc = "get_stack_outputs"
    /\ clock < MaxClock
    /\ clock' = clock + 1
    /\ db' = update_deployment_status(db, StackName(t.customer_id, t.environment),
                                      SUCCEEDED, None, IF raised THEN None ELSE outputs,
                                      EmptyStr, clock')
    /\ tasks' = add_task(Finish(tasks, t), "install_addons_after_delay",
                         t.customer_id, t.environment)
    /\ resp' = WebhookResponse(TRUE, "")
    /\ UNCHANGED <<variant, secret, configs, engine>>

\* _handle_deployment_succeeded resumes: the outputs arrive, or the call raised
_handle_deployment_succeeded(t, outputs, raised) ==
    /\ t.kind = "_handle_deployment_succeeded" /\ t.pc = "get_stack_outputs"
    /\ IF raised
       THEN /\ tasks' = Finish(tasks, t)
            /\ resp' = WebhookResponse(FALSE, "exception")
            /\ UNCHANGED <<db, clock>>
       ELSE /\ clock < MaxClock
            /\ InFlight(Finish(tasks, t)) < MaxTasks
            /\ clock' = clock + 1
            /\ db' = update_deployment_status(db, StackName(t.customer_id, t.environment),
                                              SUCCEEDED, None, outputs, EmptyStr, clock')
            /\ tasks' = add_task(Finish(tasks, t), "install_addons_after_delay",
                                 t.customer_id, t.environment)
            /\ resp' = WebhookResponse(TRUE, "")
    /\ UNCHANGED <<variant, secret, configs, engine>>

(* the delayed addon install: _auto_install_addons_after_delay (deployments.py, used by the *)
(* api webhook) and _install_addons_after_delay (automation webhook)                        *)

\* self.outputs.get("access_node_instance_id") is present
HasAccessNode(outputs) == outputs = <<"{access_node}">>

\* asyncio.sleep(90) is over; the installer reads config and deployment and sends the command
install_addons_after_delay(t) ==
    LET deployment == get_deployment(db, t.customer_id, t.environment)
        sent == /\ t.customer_id \in configs
                /\ deployment # 0
                /\ HasAccessNode(db[deployment].outputs)
    IN
    /\ t.kind = "install_addons_after_delay" /\ t.pc = "start"
    /\ tasks' = Finish(tasks, t)
    /\ resp' = [NoResp EXCEPT !.reason = IF sent THEN "install command sent"
                                                  ELSE "install failed"]
    /\ UNCHANGED <<variant, secret, configs, db, clock, engine>>

----------------------------------------------------------------------------
(* automation/api/routes/deployments.py: GET /deployments/{customer_id}/{environment}/status *)

StatusResponse(st) ==
    [code |-> 200, received |-> FALSE, processed |-> FALSE, reason |-> "", status |-> st]

\* the status of the row as re-read after a write ("updated = db.get_deployment(...)")
Reread(rows, customer_id, environment, stale) ==
    LET i == get_deployment(rows, customer_id, environment) IN
    IF i = 0 THEN stale ELSE rows[i].status

get_deployment_status(customer_id, environment) ==
    LET deployment == get_deployment(db, customer_id, environment) IN
    /\ IF deployment = 0
       THEN /\ resp' = HttpError(404, "deployment not found")
            /\ UNCHANGED tasks
       ELSE IF /\ db[deployment].status \in {IN_PROGRESS, DESTROYING}
               /\ ~Falsy(db[deployment].pulumi_deployment_id)
       THEN /\ InFlight(tasks) < MaxTasks
            /\ tasks' = Spawn(tasks,
                  Task("get_deployment_status", customer_id, environment,
                       "get_deployment_status",
                       [status |-> db[deployment].status,
                        pulumi_deployment_id |-> db[deployment].pulumi_deployment_id], None))
            /\ resp' = NoResp
       ELSE /\ resp' = StatusResponse(db[deployment].status)
            /\ UNCHANGED tasks
    /\ UNCHANGED <<variant, secret, configs, db, clock, engine>>

\* client.get_deployment_status(...) returned status_value (with a message, or EmptyStr
\* for a result without the "message" key) or raised
get_deployment_status_polled(t, status_value, message, raised) ==
    LET stack_name == StackName(t.customer_id, t.environment)
        is_destroying == t.snap.status = DESTROYING
        error_msg == OrDefault(message, <<"Operation failed">>)
    IN
    /\ t.kind = "get_deployment_status" /\ t.pc = "get_deployment_status"
    /\ IF raised
       THEN /\ tasks' = Finish(tasks, t)
            /\ resp' = StatusResponse(t.snap.status)
            /\ UNCHANGED <<db, clock>>
       ELSE IF status_value = "succeeded" /\ is_destroying
       THEN /\ clock < MaxClock
            /\ clock' = clock + 1
            /\ db' = update_deployment_status(db, stack_name, DESTROYED, None, EmptyStr, EmptyStr, clock')
            /\ tasks' = Finish(tasks, t)
            /\ resp' = StatusResponse(Reread(db', t.customer_id, t.environment, t.snap.status))
       ELSE IF status_value = "succeeded"
       THEN /\ tasks' = Goto(tasks, t, "get_stack_outputs")
            /\ resp' = NoResp
            /\ UNCHANGED <<db, clock>>
       ELSE IF status_value = "failed"
       THEN /\ clock < MaxClock
            /\ clock' = clock + 1
            /\ db' = update_deployment_status(db, stack_name, FAILED, None, None,
                        IF is_destroying THEN <<"Destroy failed: ">> \o error_msg ELSE error_msg,
                        clock')
            /\ tasks' = Finish(tasks, t)
            /\ resp' = StatusResponse(Reread(db', t.customer_id, t.environment, t.snap.status))
       ELSE /\ tasks' = Finish(tasks, t)
            /\ resp' = StatusResponse(t.snap.status)
            /\ UNCHANGED <<db, clock>>
    /\ UNCHANGED <<variant, secret, configs, engine>>

\* client.get_stack_outputs(...) returned or raised ("except Exception: pass")
get_deployment_status_outputs(t, outputs, raised) ==
    /\ t.kind = "get_deployment_status" /\ t.pc = "get_stack_outputs"
    /\ IF raised
       THEN /\ resp' = StatusResponse(t.snap.status)
            /\ UNCHANGED <<db, clock>>
       ELSE /\ clock < MaxClock
            /\ clock' = clock + 1
            /\ db' = update_deployment_status(db, StackName(t.customer_id, t.environment),
                                              SUCCEEDED, None, outputs, EmptyStr, clock')
            /\ resp' = StatusResponse(Reread(db', t.customer_id, t.environment, t.snap.status))
    /\ tasks' = Finish(tasks, t)
    /\ UNCHANGED <<variant, secret, configs, engine>>

----------------------------------------------------------------------------
(* Inputs *)

WebhookOperations == {"update", "destroy", "preview", "refresh"}
WebhookStatuses == {"succeeded", "failed", "running"}
PolledStatuses == {"succeeded", "failed", "running"}

\* the identifier the engine sends for a stack: "org/project/stack" to the api
\* handler (field "stack"), the bare stack name to the automation handler ("stackName")
StackIdentifier(v, customer_id, environment) ==
    IF v = "api"
    THEN <<"o", "/", "p", "/">> \o StackName(customer_id, environment)
    ELSE StackName(customer_id, environment)

\* identifiers that name no deployment: none at all, one without "-", one in the
\* other handler's format, and the well-formed name of a tenant that never deployed
StrayIdentifiers(v) ==
    { EmptyStr,
      <<"o", "/", "p", "/", "a", "d">>,
      StackIdentifier(IF v = "api" THEN "automation" ELSE "api", <<"a">>, <<"d">>),
      StackIdentifier(v, <<"b">>, <<"d">>) }

\* the events delivered: every operation and status for the stacks that can deploy,
\* one success and one failure for the stray identifiers
WebhookEvents(v) ==
    ({StackIdentifier(v, c, e) : c \in {<<"a">>}, e \in Environments}
        \X WebhookOperations \X WebhookStatuses)
    \cup (StrayIdentifiers(v) \X {"update"} \X {"succeeded"})
    \cup (StrayIdentifiers(v) \X {"destroy"} \X {"failed"})

\* the "message" of an event is read only when its status is "failed"
MessagesOf(status_value) == IF status_value = "failed" THEN WebhookMessages ELSE {EmptyStr}

\* a request is handled, or a coroutine resumes, once the previous step is done with
\* a request or a coroutine step is taken up while the server is idle
Receive(request) ==
    /\ last = NoRequest
    /\ last' = request

Handle(request) ==
    /\ Receive(request)
    /\ UNCHANGED study

Raised(raised) == IF raised THEN "raised" ELSE "ok"

\* the response has gone out (or the coroutine has yielded): the server is idle again
Acknowledge ==
    /\ last # NoRequest
    /\ last' = NoRequest
    /\ resp' = NoResp
    /\ UNCHANGED <<variant, secret, configs, db, clock, tasks, engine>>
    /\ UNCHANGED study

Next ==
    \/ \E c \in CustomerIds, e \in Environments :
         /\ Handle(Request("deploy", c, e, EmptyStr, "", "", EmptyStr))
         /\ deploy(c, e)
    \/ \E c \in CustomerIds, e \in Environments, confirm \in BOOLEAN :
         /\ Handle(Request("destroy", c, e, EmptyStr, "", IF confirm THEN "confirm" ELSE "", EmptyStr))
         /\ destroy(c, e, confirm)
    \/ \E c \in CustomerIds, e \in Environments :
         /\ Handle(Request("status", c, e, EmptyStr, "", "", EmptyStr))
         /\ get_deployment_status(c, e)
    \/ \E sig_matches \in BOOLEAN :
         /\ Handle(Request("webhook_unauthorized", EmptyStr, EmptyStr, EmptyStr, "", "", EmptyStr))
         /\ webhook_unauthorized(sig_matches)
    \/ \E ev \in WebhookEvents(variant) :
         \E message \in MessagesOf(ev[3]) :
            /\ Handle(Request("webhook", EmptyStr, EmptyStr, ev[1], ev[2], ev[3], message))
            /\ pulumi_deployment_webhook(ev[1], ev[2], ev[3], message)
    \/ \E t \in Running(tasks), raised \in BOOLEAN :
         /\ Handle(TaskStep(t, Raised(raised)))
         /\ run_deployment(t, raised)
    \/ \E t \in Running(tasks), raised \in BOOLEAN :
         /\ Handle(TaskStep(t, Raised(raised)))
         /\ run_destroy(t, raised)
    \/ \E t \in Running(tasks), raised \in BOOLEAN :
         /\ Handle(TaskStep(t, Raised(raised)))
         /\ _trigger_auto_destroy(t, raised)
    \/ \E t \in Running(tasks) :
         /\ Handle(TaskStep(t, "ok"))
         /\ install_addons_after_delay(t)
    \/ \E t \in Running(tasks), outputs \in EngineOutputs, raised \in BOOLEAN :
         /\ Handle(TaskStep(t, Raised(raised)))
         /\ _handle_deployment_succeeded(t, outputs, raised)
    \/ \E t \in Running(tasks), status_value \in PolledStatuses, raised \in BOOLEAN :
         \E message \in MessagesOf(status_value) :
            /\ Handle(TaskStep(t, IF raised THEN "raised" ELSE status_value))
            /\ get_deployment_status_polled(t, status_value, message, raised)
    \/ \E t \in Running(tasks), outputs \in EngineOutputs, raised \in BOOLEAN :
         /\ Handle(TaskStep(t, Raised(raised)))
         /\ get_deployment_status_outputs(t, outputs, raised)
    \/ Acknowledge

Spec == Init /\ [][Next]_vars

TypeOK ==
    /\ clock \in 0..MaxClock
    /\ IsABag(tasks)
    /\ InFlight(tasks) <= MaxTasks

----------------------------------------------------------------------------
(* The stack name as a key: api/models.py (CustomerConfigInput, DeployRequest), the  *)
(* f"{customer_id}-{environment}" of database.py and the webhook parsers            *)

\* longest tenant id and environment name tried
MaxCustomerIdLen == 3
MaxEnvironmentLen == 3

\* min_length=3, max_length=50 of customer_id
CustomerIdMinLength == 3
CustomerIdMaxLength == 50

\* one lower-case letter, one digit, the hyphen, and a character the pattern rejects
Chars == {"a", "0", "-", "/"}

\* all strings over an alphabet of length at most n
RECURSIVE Strings(_, _)
Strings(alphabet, n) ==
    IF n = 0 THEN {EmptyStr}
    ELSE LET shorter == Strings(alphabet, n - 1) IN
         shorter \cup {Append(w, ch) : w \in {x \in shorter : Len(x) = n - 1}, ch \in alphabet}

\* pattern=r"^[a-z0-9-]+$"
MatchesPattern(w) ==
    /\ Len(w) >= 1
    /\ \A i \in 1..Len(w) : w[i] \in {"a", "0", "-"}

\* CustomerConfigInput.customer_id
AcceptsCustomerId(w) ==
    /\ MatchesPattern(w)
    /\ Len(w) >= CustomerIdMinLength
    /\ Len(w) <= CustomerIdMaxLength

\* CustomerConfigInput.environment, DeployRequest.environment
AcceptsEnvironment(w) == MatchesPattern(w)

\* the (tenant, environment) pairs the input models accept, within the lengths tried
AcceptedPairs ==
    {p \in Strings(Chars, MaxCustomerIdLen) \X Strings(Chars, MaxEnvironmentLen) :
        AcceptsCustomerId(p[1]) /\ AcceptsEnvironment(p[2])}

\* a stack is deployed for an accepted pair
InitKey ==
    /\ Started
    /\ NothingInstalled
    /\ arg \in AcceptedPairs
    /\ ret = NoRet

\* the engine's event for that stack reaches the webhook handler, which parses the
\* identifier back into (customer_id, environment)
ParseStackOfPair ==
    /\ ret = NoRet
    /\ ret' = _parse_stack_name(StackIdentifier(variant, arg[1], arg[2]))
    /\ UNCHANGED <<variant, secret, configs, db, clock, tasks, engine, last, resp, arg>>
    /\ UNCHANGED <<addons, ssm, time>>

NextKey == ParseStackOfPair

SpecKey == InitKey /\ [][NextKey]_vars

----------------------------------------------------------------------------
(* The addon installer: AddonInstallerService (api/services/addon_installer.py and     *)
(* prod-automation/api/services/addon_installer.py), the manual endpoints of            *)
(* api/routes/cluster.py and the delayed automatic install scheduled by the webhook.    *)
(* The "api" variant runs the first service, the "automation" variant the second.       *)

MaxTicks == 2
MaxCommands == 2

ADDON_INSTALL_DELAY_SECONDS == 90

\* the clock is observed every half delay
TickSeconds == ADDON_INSTALL_DELAY_SECONDS \div 2

\* the environments of tenant "a" that have a stack
AddonEnvironments == {<<"d">>, <<"e">>}

\* outputs.get("access_node_instance_id")
AccessNodeInstanceId == <<"i-1">>

\* what SSM reports for a command: the invocation is not visible yet, or its Status
InvocationDoesNotExist == "InvocationDoesNotExist"
SsmStatuses == {"Pending", "InProgress", "Delayed", "Success", "Failed", "Cancelled",
                "TimedOut", "Cancelling", ""}
SsmInvocations == {InvocationDoesNotExist} \cup SsmStatuses

\* what SSM reports while installs are being dispatched
PolledInvocations == {InvocationDoesNotExist, "InProgress"}

\* AddonInstallStatus
ADDON_PENDING == "pending"
ADDON_IN_PROGRESS == "in_progress"
ADDON_SUCCEEDED == "succeeded"
ADDON_FAILED == "failed"

\* the locals of an installer call: the addon name it saves under, when its sleep ends,
\* the CommandId SSM returned and the state dict it read from the file
Locals(addon_name, wake, command_id, state) ==
    [addon_name |-> addon_name, wake |-> wake, command_id |-> command_id, state |-> state]

AddonInstallResult(addon_name, status, ssm_command_id, instance_id) ==
    [code |-> 200, received |-> FALSE, processed |-> FALSE, reason |-> "", status |-> status,
     addon_name |-> addon_name, ssm_command_id |-> ssm_command_id, instance_id |-> instance_id]

\* the entry send_command adds to the commands SSM has accepted: InstanceIds and the
\* Comment, which names what is installed and for which tenant and environment
Command(instance_id, addon_name, customer_id, environment) ==
    [instance_id |-> instance_id, addon_name |-> addon_name,
     customer_id |-> customer_id, environment |-> environment]

\* _state_path(): the file is named after the tenant
_state_path(customer_id, environment) == customer_id

\* _load_addon_state
_load_addon_state(files, customer_id, environment, addon_name) ==
    files[_state_path(customer_id, environment)][addon_name]

\* the addon name the automatic install saves under: _auto_install_addons calls
\* install_argocd, _install_addons_after_delay calls install_all_addons
AutoAddonName == IF variant = "api" THEN "argocd" ELSE "all"

\* the addon name get_install_status looks up when the route passes none
StatusAddonName == IF variant = "api" THEN "argocd" ELSE "all"

\* both environments of tenant "a" have been deployed and their engine runs are under way
DeployedTable ==
    LET one == create_deployment(<<>>, <<"a">>, <<"d">>, 0)
        two == create_deployment(one, <<"a">>, <<"e">>, 0)
        three == update_deployment_status(two, StackName(<<"a">>, <<"d">>), IN_PROGRESS,
                                          RunId("update", 1), None, None, 0)
    IN update_deployment_status(three, StackName(<<"a">>, <<"e">>), IN_PROGRESS,
                                RunId("update", 2), None, None, 0)

InitAddon ==
    /\ variant \in {"api", "automation"}
    /\ secret = <<"s">>
    /\ configs = {<<"a">>}
    /\ db = DeployedTable
    /\ clock = 0
    /\ tasks = EmptyBag
    /\ engine = 2
    /\ last = NoRequest
    /\ resp = NoResp
    /\ NothingInstalled
    /\ arg = NoArg
    /\ ret = NoRet

\* the scheduled coroutine starts and goes to sleep
_install_addons_after_delay(t) ==
    /\ t.kind = "install_addons_after_delay" /\ t.pc = "start"
    /\ tasks' = Spawn(Finish(tasks, t),
                      [t EXCEPT !.pc = "sleep",
                                !.snap = Locals(AutoAddonName, time + ADDON_INSTALL_DELAY_SECONDS, 0,
                                                NoAddonFiles[t.customer_id])])
    /\ resp' = NoResp
    /\ UNCHANGED <<variant, secret, configs, db, clock, engine, addons, ssm, time, arg, ret>>

\* time passes between two steps of the server
Tick ==
    /\ last = NoRequest
    /\ time < MaxTicks * TickSeconds
    /\ time' = time + TickSeconds
    /\ UNCHANGED <<variant, secret, configs, db, clock, tasks, engine, last, resp,
                   addons, ssm, arg, ret>>

\* the installer raises before it sends anything: no config, no deployment row, or no
\* access node in the stored outputs
InstallRaises(customer_id, environment) ==
    LET deployment == get_deployment(db, customer_id, environment) IN
    \/ customer_id \notin configs
    \/ deployment = 0
    \/ ~HasAccessNode(db[deployment].outputs)

\* the manual call answers 400 with the error text; the automatic one logs it
InstallFailed(t) ==
    IF t.kind = "install_argocd"
    THEN HttpError(400, "install failed")
    ELSE [NoResp EXCEPT !.reason = "install failed"]

\* the sleeper woken as soon as it is asleep
SleepOver_at_once(t) == time >= t.snap.wake - ADDON_INSTALL_DELAY_SECONDS

\* await asyncio.sleep(ADDON_INSTALL_DELAY_SECONDS) returns
SleepOver(t) == time >= t.snap.wake

\* _install_all_addons_sync / _install_argocd_sync up to ssm.send_command, in its thread:
\* after the sleep for the automatic install, at once for the manual one
_install_sync(t) ==
    /\ \/ t.kind = "install_addons_after_delay" /\ t.pc = "sleep" /\ SleepOver(t)
       \/ t.kind = "install_argocd" /\ t.pc = "send_command"
    /\ IF InstallRaises(t.customer_id, t.environment)
       THEN /\ tasks' = Finish(tasks, t)
            /\ resp' = InstallFailed(t)
            /\ UNCHANGED ssm
       ELSE /\ Len(ssm) < MaxCommands
            /\ ssm' = Append(ssm, Command(AccessNodeInstanceId, t.snap.addon_name, t.customer_id,
                                          t.environment))
            /\ tasks' = Spawn(Finish(tasks, t),
                              [t EXCEPT !.pc = "read_text", !.snap.command_id = Len(ssm')])
            /\ resp' = NoResp
    /\ UNCHANGED <<variant, secret, configs, db, clock, engine, addons, time, arg, ret>>

\* _save_addon_state: state = json.loads(path.read_text()), {} when there is no file
_save_addon_state_read(t) ==
    /\ t.kind \in {"install_addons_after_delay", "install_argocd"} /\ t.pc = "read_text"
    /\ tasks' = Spawn(Finish(tasks, t),
                      [t EXCEPT !.pc = "write_text",
                                !.snap.state = addons[_state_path(t.customer_id, t.environment)]])
    /\ resp' = NoResp
    /\ UNCHANGED <<variant, secret, configs, db, clock, engine, addons, ssm, time, arg, ret>>

\* _save_addon_state: state[addon_name] = {...}; path.write_text(json.dumps(state)), and
\* the result goes back to the caller
_save_addon_state(t) ==
    /\ t.kind \in {"install_addons_after_delay", "install_argocd"} /\ t.pc = "write_text"
    /\ addons' = [addons EXCEPT ![_state_path(t.customer_id, t.environment)] =
                     [t.snap.state EXCEPT ![t.snap.addon_name] =
                         [last_command_id |-> t.snap.command_id,
                          instance_id |-> AccessNodeInstanceId,
                          triggered_at |-> time]]]
    /\ tasks' = Finish(tasks, t)
    /\ resp' = IF t.kind = "install_argocd"
               THEN AddonInstallResult(t.snap.addon_name, ADDON_IN_PROGRESS, t.snap.command_id,
                                       AccessNodeInstanceId)
               ELSE [NoResp EXCEPT !.reason = "install command sent"]
    /\ UNCHANGED <<variant, secret, configs, db, clock, engine, ssm, time, arg, ret>>

\* POST /{customer_id}/{environment}/addons/argocd/install (a stored config has
\* addons.argocd.enabled); the handler awaits the installer's thread
install_argocd(customer_id, environment) ==
    LET deployment == get_deployment(db, customer_id, environment) IN
    /\ IF deployment = 0
       THEN resp' = HttpError(404, "deployment not found") /\ UNCHANGED tasks
       ELSE IF db[deployment].status # SUCCEEDED
       THEN resp' = HttpError(400, "deployment must be in SUCCEEDED state") /\ UNCHANGED tasks
       ELSE IF customer_id \notin configs
       THEN resp' = HttpError(404, "configuration not found") /\ UNCHANGED tasks
       ELSE /\ InFlight(tasks) < MaxTasks
            /\ tasks' = Spawn(tasks, Task("install_argocd", customer_id, environment,
                                          "send_command",
                                          Locals("argocd", 0, 0, NoAddonFiles[customer_id]),
                                          None))
            /\ resp' = NoResp
    /\ UNCHANGED <<variant, secret, configs, db, clock, engine, addons, ssm, time, arg, ret>>

\* the mapping with everything that is not a success still running
AddonStatusOf_optimistic(invocation) ==
    IF invocation = InvocationDoesNotExist THEN ADDON_PENDING
    ELSE IF invocation = "Success" THEN ADDON_SUCCEEDED
    ELSE IF invocation \in {"Failed", "Cancelled", "TimedOut"} THEN ADDON_FAILED
    ELSE ADDON_IN_PROGRESS

\* _get_install_status_sync: the status of the result
AddonStatusOf(invocation) ==
    IF invocation = InvocationDoesNotExist THEN ADDON_PENDING
    ELSE IF invocation \in {"Pending", "InProgress", "Delayed"} THEN ADDON_IN_PROGRESS
    ELSE IF invocation = "Success" THEN ADDON_SUCCEEDED
    ELSE ADDON_FAILED

\* GET /{customer_id}/{environment}/addons/argocd/status?command_id=...: the route passes
\* no instance_id, so get_install_status reads both ids from the saved state
get_argocd_install_status(customer_id, environment, command_id, invocation) ==
    LET deployment == get_deployment(db, customer_id, environment)
        instance_id == None
        state == _load_addon_state(addons, customer_id, environment, StatusAddonName)
    IN
    /\ IF deployment = 0
       THEN resp' = HttpError(404, "deployment not found")
       ELSE IF command_id = 0 \/ instance_id = None
       THEN IF state = NoAddonState
            THEN resp' = HttpError(404, "no installation found")
            ELSE resp' = AddonInstallResult(StatusAddonName, AddonStatusOf(invocation),
                                            state.last_command_id, state.instance_id)
       ELSE resp' = AddonInstallResult(StatusAddonName, AddonStatusOf(invocation),
                                       command_id, instance_id)
    /\ UNCHANGED <<variant, secret, configs, db, clock, tasks, engine, addons, ssm, time,
                   arg, ret>>

\* the installs of tenant "a" in the environments envs: the engine's success events, the
\* handler, the delayed automatic install and the manual one
InstallerNext(envs) ==
    \/ \E e \in envs :
         /\ Handle(Request("webhook", EmptyStr, EmptyStr, StackIdentifier(variant, <<"a">>, e),
                           "update", "succeeded", EmptyStr))
         /\ pulumi_deployment_webhook(StackIdentifier(variant, <<"a">>, e), "update",
                                      "succeeded", EmptyStr)
    \/ \E t \in Running(tasks), outputs \in EngineOutputs, raised \in BOOLEAN :
         /\ Handle(TaskStep(t, Raised(raised)))
         /\ _handle_deployment_succeeded(t, outputs, raised)
    \/ \E t \in Running(tasks) :
         /\ Receive(TaskStep(t, "ok"))
         /\ _install_addons_after_delay(t)
    \/ Tick
    \/ \E t \in Running(tasks) :
         /\ Receive(TaskStep(t, "ok"))
         /\ _install_sync(t)
    \/ \E t \in Running(tasks) :
         /\ Receive(TaskStep(t, "ok"))
         /\ _save_addon_state_read(t)
    \/ \E t \in Running(tasks) :
         /\ Receive(TaskStep(t, "ok"))
         /\ _save_addon_state(t)
    \/ \E c \in configs, e \in envs :
         /\ Receive(Request("addons/argocd/install", c, e, EmptyStr, "", "", EmptyStr))
         /\ install_argocd(c, e)
    \/ Acknowledge

\* one environment: scheduling, sleeping and dispatching
NextInstall == InstallerNext(Environments)

SpecInstall == InitAddon /\ [][NextInstall]_vars

\* two environments of the tenant, and the status endpoint
NextAddon ==
    \/ InstallerNext(AddonEnvironments)
    \/ \E c \in configs, e \in AddonEnvironments, command_id \in 0..MaxCommands,
          invocation \in PolledInvocations :
         /\ Receive(Request("addons/argocd/status", c, e, EmptyStr, "", invocation,
                            EmptyStr))
         /\ get_argocd_install_status(c, e, command_id, invocation)

SpecAddon == InitAddon /\ [][NextAddon]_vars

\* the status endpoint by itself, after installs that ran one after the other

\* the commands that can have been sent for tenant "a"
RECURSIVE SentCommands(_)
SentCommands(n) ==
    IF n = 0 THEN {<<>>}
    ELSE LET shorter == SentCommands(n - 1) IN
         shorter \cup {Append(q, Command(AccessNodeInstanceId, name, <<"a">>, e)) :
                          q \in {x \in shorter : Len(x) = n - 1},
                          name \in AddonNames, e \in AddonEnvironments}

\* the state files after each of the commands was saved in turn
RECURSIVE SavedAfter(_)
SavedAfter(commands) ==
    IF commands = <<>> THEN NoAddonFiles
    ELSE LET k == Len(commands)
             c == commands[k]
             before == SavedAfter(SubSeq(commands, 1, k - 1))
         IN [before EXCEPT ![_state_path(c.customer_id, c.environment)][c.addon_name] =
                [last_command_id |-> k, instance_id |-> c.instance_id, triggered_at |-> 0]]

\* both stacks of the tenant have succeeded with an access node
SucceededTable ==
    LET one == update_deployment_status(DeployedTable, StackName(<<"a">>, <<"d">>), SUCCEEDED,
                                        None, <<"{access_node}">>, EmptyStr, 1)
    IN update_deployment_status(one, StackName(<<"a">>, <<"e">>), SUCCEEDED,
                                None, <<"{access_node}">>, EmptyStr, 2)

InitStatus ==
    /\ variant \in {"api", "automation"}
    /\ secret = <<"s">>
    /\ configs = {<<"a">>}
    /\ db = SucceededTable
    /\ clock = 2
    /\ tasks = EmptyBag
    /\ engine = 2
    /\ last = NoRequest
    /\ resp = NoResp
    /\ ssm \in SentCommands(MaxCommands)
    /\ addons = SavedAfter(ssm)
    /\ time = 0
    /\ arg = NoArg
    /\ ret = NoRet

NextStatus ==
    \/ \E c \in configs, e \in AddonEnvironments, command_id \in 0..MaxCommands,
          invocation \in SsmInvocations :
         /\ Receive(Request("addons/argocd/status", c, e, EmptyStr, "", invocation, EmptyStr))
         /\ get_argocd_install_status(c, e, command_id, invocation)
    \/ Acknowledge

SpecStatus == InitStatus /\ [][NextStatus]_vars

----------------------------------------------------------------------------
(* Addresses and ranges: the ipaddress calls of api/config_resolver.py and              *)
(* prod-automation/api/validation.py.  A CIDR text "o1.o2.o3.o4/p" is the tuple          *)
(* <<o1, o2, o3, o4, p>>; the integer value of an address is kept with 2^31 subtracted,  *)
(* so that every IPv4 address has a value TLC can compute with.                          *)

MaxAzs == 3
MaxOffset == 2
MaxSubnets == 2

\* the text is an IPv4 network: four octets and a prefix length (from /2, so that the
\* size of a block is a number TLC can compute with)
is_valid_cidr(cidr) ==
    /\ Len(cidr) = 5
    /\ \A k \in 1..4 : cidr[k] \in 0..255
    /\ cidr[5] \in 2..32

\* int(address) - 2^31
IpInt(octets) ==
    (octets[1] - 128) * 2^24 + octets[2] * 2^16 + octets[3] * 2^8 + octets[4]

\* ipaddress.ip_address(value): the dotted quad of an integer
ip_address(value) ==
    <<(value \div 2^24) + 128, (value \div 2^16) % 256, (value \div 2^8) % 256, value % 256>>

\* f"{subnet_addr}/{cidr_mask}"
CidrText(octets, cidr_mask) == <<octets[1], octets[2], octets[3], octets[4], cidr_mask>>

\* ipaddress.ip_network(cidr, strict=False): the host bits are dropped
ip_network(cidr) ==
    LET value == IpInt(cidr)
        size == 2^(32 - cidr[5])
    IN [network_address |-> value - (value % size),
        broadcast_address |-> value - (value % size) + size - 1,
        prefixlen |-> cidr[5]]

\* address in network
InNetwork(address, net) ==
    net.network_address <= address /\ address <= net.broadcast_address

\* net1.overlaps(net2)
overlaps(net1, net2) ==
    \/ InNetwork(net1.network_address, net2)
    \/ InNetwork(net1.broadcast_address, net2)
    \/ InNetwork(net2.network_address, net1)
    \/ InNetwork(net2.broadcast_address, net1)

\* subnet.subnet_of(vpc)
subnet_of(subnet, vpc) ==
    /\ vpc.network_address <= subnet.network_address
    /\ vpc.broadcast_address >= subnet.broadcast_address

\* cidrs_overlap: False when one of the texts is not a network
cidrs_overlap(cidr1, cidr2) ==
    IF is_valid_cidr(cidr1) /\ is_valid_cidr(cidr2)
    THEN overlaps(ip_network(cidr1), ip_network(cidr2))
    ELSE FALSE

\* is_subnet_of: False when one of the texts is not a network
is_subnet_of(subnet_cidr, vpc_cidr) ==
    IF is_valid_cidr(subnet_cidr) /\ is_valid_cidr(vpc_cidr)
    THEN subnet_of(ip_network(subnet_cidr), ip_network(vpc_cidr))
    ELSE FALSE

\* get_default_availability_zones(region, count): the slice [:count] stops at the last suffix
get_default_availability_zones(region, count) ==
    LET suffixes == <<"a", "b", "c", "d", "e", "f">>
        n == IF count < Len(suffixes) THEN count ELSE Len(suffixes)
    IN [k \in 1..n |-> region \o <<suffixes[k]>>]

\* the allocator counting its blocks from one instead of from the offset
calculate_subnet_cidrs_from_one(vpc_cidr, availability_zones, cidr_mask, offset_blocks) ==
    LET vpc_network == ip_network(vpc_cidr) IN
    [i \in 1..Len(availability_zones) |->
        <<CidrText(ip_address(vpc_network.network_address + i * 2^(32 - cidr_mask)), cidr_mask),
          availability_zones[i]>>]

\* calculate_subnet_cidrs: enumerate() counts from 0, the sequence index i from 1
calculate_subnet_cidrs(vpc_cidr, availability_zones, cidr_mask, offset_blocks) ==
    LET vpc_network == ip_network(vpc_cidr) IN
    [i \in 1..Len(availability_zones) |->
        LET block_index == offset_blocks + (i - 1)
            subnet_size == 2^(32 - cidr_mask)
            subnet_offset == block_index * subnet_size
            subnet_addr == ip_address(vpc_network.network_address + subnet_offset)
            subnet_cidr == CidrText(subnet_addr, cidr_mask)
        IN <<subnet_cidr, availability_zones[i]>>]

(* the allocator by itself *)

\* VPC ranges, one of them written with host bits
VpcCidrs == {<<10, 0, 0, 0, 16>>, <<10, 0, 200, 7, 16>>, <<172, 20, 0, 0, 16>>,
             <<192, 168, 0, 0, 16>>, <<100, 64, 0, 0, 16>>}

Regions == {<<"r">>, <<"s">>}

\* the first n default zones of a region
AzLists(n) == {get_default_availability_zones(region, k) : region \in Regions, k \in 0..n}

\* the masks the resolver allocates with: public, private, pod
CidrMasks == {24, 20, 18}

AllocatorCalls ==
    {[vpc_cidr |-> v, availability_zones |-> azs, cidr_mask |-> m, offset_blocks |-> o] :
        v \in VpcCidrs, azs \in AzLists(MaxAzs), m \in CidrMasks, o \in 0..MaxOffset}

InitAllocator ==
    /\ Started
    /\ NothingInstalled
    /\ arg \in AllocatorCalls
    /\ ret = NoRet

CallAllocator ==
    /\ ret = NoRet
    /\ ret' = <<calculate_subnet_cidrs(arg.vpc_cidr, arg.availability_zones, arg.cidr_mask,
                                       arg.offset_blocks)>>
    /\ UNCHANGED <<variant, secret, configs, db, clock, tasks, engine, last, resp, arg,
                   addons, ssm, time>>

NextAllocator == CallAllocator

SpecAllocator == InitAllocator /\ [][NextAllocator]_vars

----------------------------------------------------------------------------
(* api/config_resolver.py and prod-automation/api/validation.py: resolution of a tenant  *)
(* config and its validation.  Optional lists that are absent are empty sequences (the   *)
(* code tests them for truth); an absent vpc_config or eks_config is the default one.    *)
(* Of the resolved config the model keeps the fields the validation reads.  A list of    *)
(* violations is the set of <<field, index>> it names.                                   *)

NAT_NONE == "none"
NAT_SINGLE == "single"
NAT_ONE_PER_AZ == "one_per_az"

\* EksConfigInput.service_ipv4_cidr default "172.20.0.0/16"
DefaultServiceCidr == <<172, 20, 0, 0, 16>>

\* VpcConfigInput.cidr_block default "10.0.0.0/16"
DefaultVpcCidr == <<10, 0, 0, 0, 16>>

SubnetInput(cidr_block, availability_zone) ==
    [cidr_block |-> cidr_block, availability_zone |-> availability_zone]

VpcConfigInput(cidr_block, secondary_cidr_blocks, nat_gateway_strategy, public_subnets, private_subnets, pod_subnets) ==
    [cidr_block |-> cidr_block, secondary_cidr_blocks |-> secondary_cidr_blocks,
     nat_gateway_strategy |-> nat_gateway_strategy, public_subnets |-> public_subnets,
     private_subnets |-> private_subnets, pod_subnets |-> pod_subnets]

CustomerConfigInput(customer_id, region, vpc_config, service_ipv4_cidr) ==
    [customer_id |-> customer_id, environment |-> <<"prod">>,
     aws_config |-> [region |-> region],
     vpc_config |-> vpc_config,
     eks_config |-> [service_ipv4_cidr |-> service_ipv4_cidr]]

\* f"{customer_id}-{subnet_type}-{az[-1]}"
SubnetName(customer_id, subnet_type, az) ==
    customer_id \o <<"-", subnet_type, "-", az[Len(az)]>>

SubnetResolved(cidr_block, availability_zone, name) ==
    [cidr_block |-> cidr_block, availability_zone |-> availability_zone, name |-> name]

\* the custom subnets of a tier, resolved
CustomSubnets(custom_subnets, subnet_type, customer_id) ==
    [i \in 1..Len(custom_subnets) |->
        SubnetResolved(custom_subnets[i].cidr_block, custom_subnets[i].availability_zone,
                       SubnetName(customer_id, subnet_type, custom_subnets[i].availability_zone))]

\* the calculated (cidr, az) pairs of a tier, resolved
CalculatedSubnets(calculated, subnet_type, customer_id) ==
    [i \in 1..Len(calculated) |->
        SubnetResolved(calculated[i][1], calculated[i][2],
                       SubnetName(customer_id, subnet_type, calculated[i][2]))]

resolve_subnets(custom_subnets, vpc_cidr, availability_zones, subnet_type, cidr_mask, offset_blocks, customer_id) ==
    IF custom_subnets # <<>>
    THEN CustomSubnets(custom_subnets, subnet_type, customer_id)
    ELSE CalculatedSubnets(calculate_subnet_cidrs(vpc_cidr, availability_zones, cidr_mask,
                                                  offset_blocks),
                           subnet_type, customer_id)

\* the private blocks: /20 each, from 16 * 256 addresses after the network address
PrivateCalculated(vpc_cidr, availability_zones) ==
    LET private_base == ip_network(vpc_cidr).network_address + 16 * 256 IN
    [i \in 1..Len(availability_zones) |->
        <<CidrText(ip_address(private_base + (i - 1) * 2^(32 - 20)), 20), availability_zones[i]>>]

\* resolve_vpc_endpoints without an input: only s3 (and the SSM ones on request)
DefaultVpcEndpoints == [ecr_api |-> FALSE, ecr_dkr |-> FALSE, sts |-> FALSE]

\* the resolver placing the private blocks right after the public ones' first block
resolve_vpc_config_packed(vpc_input, availability_zones, customer_id) ==
    [cidr_block |-> vpc_input.cidr_block,
     secondary_cidr_blocks |-> vpc_input.secondary_cidr_blocks,
     nat_gateway_strategy |-> vpc_input.nat_gateway_strategy,
     public_subnets |->
        resolve_subnets(vpc_input.public_subnets, vpc_input.cidr_block, availability_zones,
                        "public", 24, 0, customer_id),
     private_subnets |->
        resolve_subnets(vpc_input.private_subnets, vpc_input.cidr_block, availability_zones,
                        "private", 20, 0, customer_id),
     pod_subnets |-> <<>>,
     vpc_endpoints |-> DefaultVpcEndpoints]

resolve_vpc_config(vpc_input, availability_zones, customer_id) ==
    [cidr_block |-> vpc_input.cidr_block,
     secondary_cidr_blocks |-> vpc_input.secondary_cidr_blocks,
     nat_gateway_strategy |-> vpc_input.nat_gateway_strategy,
     public_subnets |->
        resolve_subnets(vpc_input.public_subnets, vpc_input.cidr_block, availability_zones,
                        "public", 24, 0, customer_id),
     private_subnets |->
        IF vpc_input.private_subnets # <<>>
        THEN CustomSubnets(vpc_input.private_subnets, "private", customer_id)
        ELSE CalculatedSubnets(PrivateCalculated(vpc_input.cidr_block, availability_zones),
                               "private", customer_id),
     pod_subnets |->
        IF vpc_input.pod_subnets # <<>>
        THEN CustomSubnets(vpc_input.pod_subnets, "pod", customer_id)
        ELSE IF vpc_input.secondary_cidr_blocks # <<>>
        THEN CalculatedSubnets(calculate_subnet_cidrs(vpc_input.secondary_cidr_blocks[1],
                                                      availability_zones, 18, 0),
                               "pod", customer_id)
        ELSE <<>>,
     vpc_endpoints |-> DefaultVpcEndpoints]

\* resolve_eks_access without an input: private endpoint only
DefaultEksAccess ==
    [endpoint_private_access |-> TRUE, endpoint_public_access |-> FALSE,
     public_access_cidrs |-> <<>>]

resolve_eks_config(eks_input) ==
    [service_ipv4_cidr |-> eks_input.service_ipv4_cidr, access |-> DefaultEksAccess]

\* the resolver numbering the zones after the tenants already stored
resolve_customer_config_by_store(input_config, now) ==
    LET availability_zones ==
            get_default_availability_zones(input_config.aws_config.region, 3 - Cardinality(configs))
    IN [customer_id |-> input_config.customer_id,
        environment |-> input_config.environment,
        aws_config |-> [region |-> input_config.aws_config.region,
                        availability_zones |-> availability_zones],
        vpc_config |-> resolve_vpc_config(input_config.vpc_config, availability_zones,
                                          input_config.customer_id),
        eks_config |-> resolve_eks_config(input_config.eks_config),
        created_at |-> now,
        updated_at |-> now]

resolve_customer_config(input_config, now) ==
    LET availability_zones == get_default_availability_zones(input_config.aws_config.region, 3)
    IN [customer_id |-> input_config.customer_id,
        environment |-> input_config.environment,
        aws_config |-> [region |-> input_config.aws_config.region,
                        availability_zones |-> availability_zones],
        vpc_config |-> resolve_vpc_config(input_config.vpc_config, availability_zones,
                                          input_config.customer_id),
        eks_config |-> resolve_eks_config(input_config.eks_config),
        created_at |-> now,
        updated_at |-> now]

\* the elements of a list
Elements(list) == {list[i] : i \in 1..Len(list)}

validate_input_config(config) ==
    LET bad(field, list) ==
            {<<field, i>> : i \in {k \in 1..Len(list) : ~is_valid_cidr(list[k].cidr_block)}}
    IN
    (IF config.customer_id = EmptyStr THEN {<<"customer_id", 0>>} ELSE {})
    \cup (IF ~is_valid_cidr(config.vpc_config.cidr_block)
          THEN {<<"vpc_config.cidr_block", 0>>} ELSE {})
    \cup {<<"vpc_config.secondary_cidr_blocks", i>> :
             i \in {k \in 1..Len(config.vpc_config.secondary_cidr_blocks) :
                      ~is_valid_cidr(config.vpc_config.secondary_cidr_blocks[k])}}
    \cup bad("vpc_config.public_subnets", config.vpc_config.public_subnets)
    \cup bad("vpc_config.private_subnets", config.vpc_config.private_subnets)
    \cup bad("vpc_config.pod_subnets", config.vpc_config.pod_subnets)
    \cup (IF ~is_valid_cidr(config.eks_config.service_ipv4_cidr)
          THEN {<<"eks_config.service_ipv4_cidr", 0>>} ELSE {})

\* the range checks returning at the first violation found
validate_vpc_cidrs_first(vpc_config) ==
    LET vpc_cidr == vpc_config.cidr_block
        secondary == vpc_config.secondary_cidr_blocks
        overlapping == {k \in 1..Len(secondary) : cidrs_overlap(vpc_cidr, secondary[k])}
    IN
    IF is_valid_cidr(vpc_cidr) /\ (vpc_cidr[5] < 16 \/ vpc_cidr[5] > 24)
    THEN {<<"vpc_config.cidr_block", 0>>}
    ELSE IF overlapping # {}
    THEN {<<"vpc_config.secondary_cidr_blocks", CHOOSE k \in overlapping : \A m \in overlapping : k <= m>>}
    ELSE IF \E i, j \in 1..Len(secondary) : i < j /\ cidrs_overlap(secondary[i], secondary[j])
    THEN {<<"vpc_config.secondary_cidr_blocks", 0>>}
    ELSE {}

validate_vpc_cidrs(vpc_config) ==
    LET vpc_cidr == vpc_config.cidr_block
        secondary == vpc_config.secondary_cidr_blocks
    IN
    (IF is_valid_cidr(vpc_cidr) /\ (vpc_cidr[5] < 16 \/ vpc_cidr[5] > 24)
     THEN {<<"vpc_config.cidr_block", 0>>} ELSE {})
    \cup {<<"vpc_config.secondary_cidr_blocks", i>> :
             i \in {k \in 1..Len(secondary) : cidrs_overlap(vpc_cidr, secondary[k])}}
    \cup (IF \E i, j \in 1..Len(secondary) : i < j /\ cidrs_overlap(secondary[i], secondary[j])
          THEN {<<"vpc_config.secondary_cidr_blocks", 0>>} ELSE {})

\* all_subnets: public, then private, then pod
AllSubnets(vpc_config) ==
    vpc_config.public_subnets \o vpc_config.private_subnets \o vpc_config.pod_subnets

AzsOf(subnets) == {subnets[i].availability_zone : i \in 1..Len(subnets)}

\* the overlap check made inside each tier only
OverlapChecked_same_tier(vpc_config, i, j) ==
    LET p == Len(vpc_config.public_subnets)
        q == p + Len(vpc_config.private_subnets)
        tier(k) == IF k <= p THEN 1 ELSE IF k <= q THEN 2 ELSE 3
    IN i < j /\ tier(i) = tier(j)

\* the pairs the overlap loop compares
OverlapChecked(vpc_config, i, j) == i < j

\* containment taken for any common address
InVpcRange_any_common_address(subnet_cidr, vpc_cidr) == cidrs_overlap(subnet_cidr, vpc_cidr)

\* the containment test of one subnet against one range of the VPC
InVpcRange(subnet_cidr, vpc_cidr) == is_subnet_of(subnet_cidr, vpc_cidr)

validate_subnets(vpc_config) ==
    LET all_vpc_cidrs == <<vpc_config.cidr_block>> \o vpc_config.secondary_cidr_blocks
        all_subnets == AllSubnets(vpc_config)
        in_vpc(subnet) ==
            \E k \in 1..Len(all_vpc_cidrs) : InVpcRange(subnet.cidr_block, all_vpc_cidrs[k])
        public_azs == AzsOf(vpc_config.public_subnets)
        private_azs == AzsOf(vpc_config.private_subnets)
    IN
    {<<"not within VPC CIDR range", i>> :
        i \in {k \in 1..Len(all_subnets) : ~in_vpc(all_subnets[k])}}
    \cup {<<"overlaps", i>> :
            i \in {k \in 1..Len(all_subnets) :
                     \E j \in 1..Len(all_subnets) :
                        /\ OverlapChecked(vpc_config, k, j)
                        /\ cidrs_overlap(all_subnets[k].cidr_block, all_subnets[j].cidr_block)}}
    \cup (IF /\ vpc_config.nat_gateway_strategy # NAT_NONE
             /\ private_azs \ public_azs # {}
          THEN {<<"vpc_config.private_subnets", 0>>} ELSE {})

validate_nat_gateway_requirements(vpc_config) ==
    LET strategy == vpc_config.nat_gateway_strategy IN
    (IF strategy # NAT_NONE /\ vpc_config.public_subnets = <<>>
     THEN {<<"vpc_config.nat_gateway_strategy", 0>>} ELSE {})
    \cup (IF /\ strategy = NAT_ONE_PER_AZ
             /\ AzsOf(vpc_config.private_subnets) \ AzsOf(vpc_config.public_subnets) # {}
          THEN {<<"vpc_config.nat_gateway_strategy", 1>>} ELSE {})

validate_eks_config(config) ==
    LET eks == config.eks_config
        vpc == config.vpc_config
    IN
    (IF cidrs_overlap(eks.service_ipv4_cidr, vpc.cidr_block)
     THEN {<<"eks_config.service_ipv4_cidr", 0>>} ELSE {})
    \cup {<<"eks_config.service_ipv4_cidr", i>> :
             i \in {k \in 1..Len(vpc.secondary_cidr_blocks) :
                      cidrs_overlap(eks.service_ipv4_cidr, vpc.secondary_cidr_blocks[k])}}
    \cup (IF eks.access.endpoint_private_access /\ vpc.private_subnets = <<>>
          THEN {<<"eks_config.access.endpoint_private_access", 0>>} ELSE {})
    \cup (IF /\ eks.access.endpoint_public_access
             /\ ~eks.access.endpoint_private_access
             /\ eks.access.public_access_cidrs = <<>>
          THEN {<<"eks_config.access.public_access_cidrs", 0>>} ELSE {})

validate_semantic_consistency(config) ==
    LET vpc == config.vpc_config
        eks == config.eks_config
        aws_azs == Elements(config.aws_config.availability_zones)
    IN
    (IF vpc.pod_subnets # <<>> /\ vpc.secondary_cidr_blocks = <<>>
     THEN {<<"vpc_config.pod_subnets", i>> :
              i \in {k \in 1..Len(vpc.pod_subnets) :
                       ~is_subnet_of(vpc.pod_subnets[k].cidr_block, vpc.cidr_block)}}
     ELSE {})
    \cup (IF /\ eks.access.endpoint_private_access
             /\ ~eks.access.endpoint_public_access
             /\ vpc.nat_gateway_strategy = NAT_NONE
             /\ (~vpc.vpc_endpoints.ecr_api \/ ~vpc.vpc_endpoints.ecr_dkr \/ ~vpc.vpc_endpoints.sts)
          THEN {<<"vpc_config.vpc_endpoints", 0>>} ELSE {})
    \cup (IF AzsOf(vpc.public_subnets) \ aws_azs # {}
          THEN {<<"vpc_config.public_subnets", 0>>} ELSE {})
    \cup (IF AzsOf(vpc.private_subnets) \ aws_azs # {}
          THEN {<<"vpc_config.private_subnets", 1>>} ELSE {})

\* the validation stopping at the first group of rules that reports something
validate_resolved_config_first_failure(config) ==
    IF validate_vpc_cidrs(config.vpc_config) # {} THEN validate_vpc_cidrs(config.vpc_config)
    ELSE IF validate_subnets(config.vpc_config) # {} THEN validate_subnets(config.vpc_config)
    ELSE IF validate_nat_gateway_requirements(config.vpc_config) # {}
    THEN validate_nat_gateway_requirements(config.vpc_config)
    ELSE IF validate_eks_config(config) # {} THEN validate_eks_config(config)
    ELSE validate_semantic_consistency(config)

\* the resolved config of api/models.py has no kafka_config: validate_kafka_config(None)
\* returns no violation
validate_resolved_config(config) ==
    validate_vpc_cidrs(config.vpc_config)
    \cup validate_subnets(config.vpc_config)
    \cup validate_nat_gateway_requirements(config.vpc_config)
    \cup validate_eks_config(config)
    \cup validate_semantic_consistency(config)

\* the violations ConfigValidationError is raised with; none when it returns
validate_config(input_config, resolved_config) ==
    IF validate_input_config(input_config) # {}
    THEN validate_input_config(input_config)
    ELSE validate_resolved_config(resolved_config)

----------------------------------------------------------------------------
(* routes/configs.py validate_config_endpoint over configs with custom subnets *)

\* the tiers a custom subnet is given for
SubnetTiers == {"public", "private", "pod"}

\* the secondary range of the inputs that declare one
SecondaryCidr == <<10, 8, 0, 0, 16>>

\* custom subnet ranges: inside the primary range (one with host bits set, two that share
\* addresses with the first), around the primary range, inside the secondary range, and
\* outside both
SubnetCidrs ==
    {<<10, 0, 0, 0, 24>>, <<10, 0, 0, 77, 25>>, <<10, 0, 1, 0, 24>>, <<10, 0, 0, 0, 15>>,
     <<10, 8, 192, 0, 18>>, <<10, 8, 0, 0, 18>>, <<10, 9, 0, 0, 24>>}

SubnetPicks == {[tier |-> t, cidr_block |-> c] : t \in SubnetTiers, c \in SubnetCidrs}

\* the lists of at most n custom subnets
RECURSIVE PickLists(_)
PickLists(n) ==
    IF n = 0 THEN {<<>>}
    ELSE LET shorter == PickLists(n - 1) IN
         shorter \cup {Append(q, p) : q \in {x \in shorter : Len(x) = n - 1}, p \in SubnetPicks}

\* the custom subnets of one tier, in the order given, all in the region's first zone
RECURSIVE OfTier(_, _, _)
OfTier(picks, tier, region) ==
    IF picks = <<>> THEN <<>>
    ELSE LET rest == OfTier(Tail(picks), tier, region) IN
         IF Head(picks).tier = tier
         THEN <<SubnetInput(Head(picks).cidr_block,
                            get_default_availability_zones(region, 1)[1])>> \o rest
         ELSE rest

SubnetInputs ==
    {CustomerConfigInput(<<"a">>, <<"r">>,
                         VpcConfigInput(DefaultVpcCidr, secondary, nat,
                                        OfTier(picks, "public", <<"r">>),
                                        OfTier(picks, "private", <<"r">>),
                                        OfTier(picks, "pod", <<"r">>)),
                         DefaultServiceCidr) :
        secondary \in {<<>>, <<SecondaryCidr>>},
        nat \in {NAT_SINGLE, NAT_NONE},
        picks \in PickLists(MaxSubnets)}

InitSubnets ==
    /\ Started
    /\ NothingInstalled
    /\ arg \in SubnetInputs
    /\ ret = NoRet

\* the resolved config and the violations the endpoint answers 400 with (none: 200)
validate_config_endpoint ==
    /\ ret = NoRet
    /\ LET resolved == resolve_customer_config(arg, clock) IN
       ret' = <<resolved, validate_config(arg, resolved)>>
    /\ UNCHANGED <<variant, secret, configs, db, clock, tasks, engine, last, resp, arg,
                   addons, ssm, time>>

NextSubnets == validate_config_endpoint

SpecSubnets == InitSubnets /\ [][NextSubnets]_vars

----------------------------------------------------------------------------
(* routes/configs.py validate_config_endpoint over inputs that give only the tenant id, *)
(* the account reference and a /16 range for the VPC                                    *)

\* AwsConfigInput.region default "us-east-1"
DefaultRegion == <<"us-east-1">>

\* /16 texts, written with and without host bits
Sixteens ==
    {<<o1, o2, h[1], h[2], 16>> :
        o1 \in {10, 172, 192, 255}, o2 \in {0, 20, 168, 255}, h \in {<<0, 0>>, <<200, 7>>}}

\* the role ARN and the external id are required fields and do not reach the resolved
\* subnets; everything else is left to its default
MinimalInputs ==
    {CustomerConfigInput(customer_id, DefaultRegion,
                         VpcConfigInput(cidr, <<>>, NAT_SINGLE, <<>>, <<>>, <<>>),
                         DefaultServiceCidr) :
        customer_id \in CustomerIds, cidr \in Sixteens}

InitMinimal ==
    /\ Started
    /\ NothingInstalled
    /\ arg \in MinimalInputs
    /\ ret = NoRet

SpecMinimal == InitMinimal /\ [][NextSubnets]_vars

----------------------------------------------------------------------------
(* routes/configs.py: resolutions of requests over a changing config store.  The store *)
(* is the set of tenant ids that have a config file; arg and ret remember an earlier   *)
(* and the latest resolution as <<request, resolved config>>.                          *)

\* the requests: two tenants, a range that validates and one that does not, with and
\* without a secondary range
ResolveInputs ==
    {CustomerConfigInput(customer_id, DefaultRegion,
                         VpcConfigInput(cidr, secondary, NAT_SINGLE, <<>>, <<>>, <<>>),
                         DefaultServiceCidr) :
        customer_id \in CustomerIds,
        cidr \in {DefaultVpcCidr, DefaultServiceCidr},
        secondary \in {<<>>, <<SecondaryCidr>>}}

\* datetime.now(timezone.utc): the clock has not moved or has moved on
Nows == {t \in {clock, clock + 1} : t <= MaxClock}

\* the routes of the api service, with the one stored tenant of Started
InitResolve ==
    /\ Started
    /\ variant = "api"
    /\ NothingInstalled
    /\ arg = NoArg
    /\ ret = NoRet

\* the latest resolution is remembered; an earlier one is kept or replaced by it
Resolved(request, resolved) ==
    /\ ret' = <<request, resolved>>
    /\ arg' \in {arg, <<request, resolved>>}

\* POST /configs: 409 for a tenant that has a config, else resolve, validate and save
create_config(request) ==
    IF request.customer_id \in configs
    THEN UNCHANGED vars
    ELSE \E now \in Nows :
            LET resolved == resolve_customer_config(request, now) IN
            /\ clock' = now
            /\ Resolved(request, resolved)
            /\ configs' = IF validate_config(request, resolved) = {}
                          THEN configs \cup {request.customer_id}
                          ELSE configs
            /\ UNCHANGED <<variant, secret, db, tasks, engine, last, resp, addons, ssm, time>>

\* POST /configs/validate: resolve and validate, nothing saved
validate_request(request) ==
    \E now \in Nows :
        /\ clock' = now
        /\ Resolved(request, resolve_customer_config(request, now))
        /\ UNCHANGED <<variant, secret, configs, db, tasks, engine, last, resp, addons, ssm,
                       time>>

\* DELETE /configs/{customer_id}: 404 for a tenant without a config
delete_config(customer_id) ==
    IF customer_id \notin configs
    THEN UNCHANGED vars
    ELSE /\ configs' = configs \ {customer_id}
         /\ UNCHANGED <<variant, secret, db, clock, tasks, engine, last, resp, arg, ret,
                        addons, ssm, time>>

NextResolve ==
    \/ \E request \in ResolveInputs : create_config(request)
    \/ \E request \in ResolveInputs : validate_request(request)
    \/ \E customer_id \in CustomerIds : delete_config(customer_id)

SpecResolve == InitResolve /\ [][NextResolve]_vars

----------------------------------------------------------------------------
(* api/config_resolver.py resolve_eks_addons.  An Optional value is a sequence of no or *)
(* one element.  The input is an object the caller keeps: arg is the input as the       *)
(* caller sees it, ret is <<the input as it was passed, the resolved addons>>.          *)

EKS_AUTO == "auto"
EKS_MANAGED == "managed"

EksAddonFields ==
    {"vpc_cni", "coredns", "kube_proxy", "ebs_csi_driver", "efs_csi_driver",
     "pod_identity_agent", "snapshot_controller"}

\* the addons whose enabled flag is cleared in auto mode
AutoManagedAddons == {"vpc_cni", "coredns", "kube_proxy"}

\* the fields of AddonConfigInput a caller sets here; the others keep their defaults
AddonConfigInput(enabled) == [enabled |-> enabled, version |-> None]

get_default_addon_config(enabled) == AddonConfigInput(enabled)

\* the argument of get_default_addon_config for each addon
DefaultEnabled(field) == field \notin {"efs_csi_driver", "snapshot_controller"}

\* input_addons.<field> is an object of the caller (and not None)
Supplied(input_addons, field) == input_addons # <<>> /\ input_addons[1][field] # <<>>

\* input_addons.<field> or get_default_addon_config(...)
AddonOrDefault(input_addons, field) ==
    IF Supplied(input_addons, field)
    THEN input_addons[1][field][1]
    ELSE get_default_addon_config(DefaultEnabled(field))

\* the value returned
resolve_eks_addons(input_addons, eks_mode) ==
    [field \in EksAddonFields |->
        IF eks_mode = EKS_AUTO /\ field \in AutoManagedAddons
        THEN [AddonOrDefault(input_addons, field) EXCEPT !.enabled = FALSE]
        ELSE AddonOrDefault(input_addons, field)]

\* the caller's input_addons after the call: `vpc_cni.enabled = False` and the two
\* assignments after it write to the caller's object where `or` picked it
resolve_eks_addons_input(input_addons, eks_mode) ==
    IF input_addons = <<>> THEN input_addons
    ELSE <<[field \in EksAddonFields |->
               IF /\ eks_mode = EKS_AUTO
                  /\ field \in AutoManagedAddons
                  /\ Supplied(input_addons, field)
               THEN <<[input_addons[1][field][1] EXCEPT !.enabled = FALSE]>>
               ELSE input_addons[1][field]]>>

\* EksAddonsInput objects: each addon absent, enabled or disabled
EksAddonsInputs ==
    [EksAddonFields -> {<<>>, <<AddonConfigInput(TRUE)>>, <<AddonConfigInput(FALSE)>>}]

\* the eks_config inputs: the mode and the optional addons block
EksInputs ==
    {[mode |-> mode, addons |-> block] :
        mode \in {EKS_AUTO, EKS_MANAGED},
        block \in {<<>>} \cup {<<a>> : a \in EksAddonsInputs}}

InitEksAddons ==
    /\ Started
    /\ variant = "api"
    /\ NothingInstalled
    /\ arg \in EksInputs
    /\ ret = NoRet

\* resolve_eks_config calls resolve_eks_addons(eks_input.addons, mode)
resolve_eks_addons_call ==
    /\ ret = NoRet
    /\ ret' = <<arg, resolve_eks_addons(arg.addons, arg.mode)>>
    /\ arg' = [arg EXCEPT !.addons = resolve_eks_addons_input(arg.addons, arg.mode)]
    /\ UNCHANGED <<variant, secret, configs, db, clock, tasks, engine, last, resp,
                   addons, ssm, time>>

NextEksAddons == resolve_eks_addons_call

SpecEksAddons == InitEksAddons /\ [][NextEksAddons]_vars

----------------------------------------------------------------------------
(* api/config_resolver.py resolve_vpc_endpoints and the private-access-node feature *)

EndpointFields ==
    {"s3", "dynamodb", "ecr_api", "ecr_dkr", "sts", "logs", "ec2", "ssm", "ssmmessages",
     "ec2messages", "elasticloadbalancing", "autoscaling"}

\* the endpoints the access node needs
SsmEndpointFields == {"ssm", "ssmmessages", "ec2messages"}

\* (eks_config and eks_config.access and eks_config.access.ssm_access_node
\*  and eks_config.access.ssm_access_node.enabled) or False
SsmAccessNodeEnabled(eks_config) ==
    /\ eks_config # <<>>
    /\ eks_config[1].access # <<>>
    /\ eks_config[1].access[1].ssm_access_node # <<>>
    /\ eks_config[1].access[1].ssm_access_node[1].enabled

\* the resolver leaving a given endpoint block as the user wrote it
resolve_vpc_endpoints_as_given(input_endpoints, eks_mode, nat_strategy, ssm_access_node_enabled) ==
    IF input_endpoints # <<>>
    THEN input_endpoints[1]
    ELSE [field \in EndpointFields |->
             IF field \in SsmEndpointFields THEN ssm_access_node_enabled ELSE field = "s3"]

resolve_vpc_endpoints(input_endpoints, eks_mode, nat_strategy, ssm_access_node_enabled) ==
    IF input_endpoints # <<>>
    THEN [field \in EndpointFields |->
             IF field \in SsmEndpointFields
             THEN input_endpoints[1][field] \/ ssm_access_node_enabled
             ELSE input_endpoints[1][field]]
    ELSE [field \in EndpointFields |->
             IF field \in SsmEndpointFields THEN ssm_access_node_enabled ELSE field = "s3"]

\* eks_config inputs: absent, without access block, without access node block, and with
\* the access node disabled or enabled
AccessNodeInputs ==
    {<<>>, <<[access |-> <<>>]>>, <<[access |-> <<[ssm_access_node |-> <<>>]>>]>>}
    \cup {<<[access |-> <<[ssm_access_node |-> <<[enabled |-> b]>>]>>]>> : b \in BOOLEAN}

\* inputs of the endpoint resolution: the eks_config, the NAT strategy and the optional
\* endpoint block with every combination of flags
EndpointInputs ==
    {[eks_config |-> eks, nat_gateway_strategy |-> NAT_SINGLE, vpc_endpoints |-> block] :
        eks \in AccessNodeInputs,
        block \in {<<>>} \cup {<<b>> : b \in [EndpointFields -> BOOLEAN]}}

InitEndpoints ==
    /\ Started
    /\ variant = "api"
    /\ NothingInstalled
    /\ arg \in EndpointInputs
    /\ ret = NoRet

\* resolve_customer_config computes ssm_access_node_enabled and resolve_vpc_config passes
\* it on with the endpoint block
resolve_vpc_endpoints_call ==
    /\ ret = NoRet
    /\ ret' = <<resolve_vpc_endpoints(arg.vpc_endpoints, EKS_AUTO, arg.nat_gateway_strategy,
                                      SsmAccessNodeEnabled(arg.eks_config))>>
    /\ UNCHANGED <<variant, secret, configs, db, clock, tasks, engine, last, resp, arg,
                   addons, ssm, time>>

NextEndpoints == resolve_vpc_endpoints_call

SpecEndpoints == InitEndpoints /\ [][NextEndpoints]_vars

----------------------------------------------------------------------------
(* prod-automation/api/validation.py validate_config called with an input and its     *)
(* resolved config, over inputs that break several rules at once.  arg is the call,   *)
(* ret is <<the violations ConfigValidationError carries>> (none: the call returns).  *)

\* a text ip_network rejects
InvalidCidr == <<10, 8, 999, 0, 24>>

\* an availability zone of another region
ForeignAz == <<"s", "a">>

\* secondary range lists: none, one, two that share addresses, one inside the primary
\* /16 range, and one followed by an invalid text
SecondaryLists ==
    {<<>>, <<SecondaryCidr>>, <<SecondaryCidr, <<10, 8, 1, 0, 24>>>>,
     <<<<10, 0, 128, 0, 17>>>>, <<SecondaryCidr, InvalidCidr>>}

\* VPC ranges handed to the validation: /16 and /18 are in the allowed range, /25 is not
ValidatedVpcCidrs == {DefaultVpcCidr, <<10, 0, 0, 0, 18>>, <<10, 0, 0, 0, 25>>}

\* the custom subnets of the calls: none, a pod subnet in a zone of the region, a pod
\* subnet in a foreign zone, a private subnet in a foreign zone
CustomTiers ==
    {[private_subnets |-> <<>>, pod_subnets |-> <<>>],
     [private_subnets |-> <<>>,
      pod_subnets |-> <<SubnetInput(<<10, 8, 0, 0, 18>>,
                                    get_default_availability_zones(DefaultRegion, 1)[1])>>],
     [private_subnets |-> <<>>,
      pod_subnets |-> <<SubnetInput(<<10, 8, 0, 0, 18>>, ForeignAz)>>],
     [private_subnets |-> <<SubnetInput(<<10, 0, 16, 0, 20>>, ForeignAz)>>,
      pod_subnets |-> <<>>]}

\* the endpoint flags the validation can depend on; the other flags are off
EndpointChoices == [{"ecr_api", "ecr_dkr", "sts", "logs"} -> BOOLEAN]

\* resolved access blocks: private only, private and public, public only without CIDRs
AccessChoices ==
    {[endpoint_private_access |-> priv, endpoint_public_access |-> pub,
      public_access_cidrs |-> <<>>] :
        priv \in BOOLEAN, pub \in BOOLEAN}
    \ {[endpoint_private_access |-> FALSE, endpoint_public_access |-> FALSE,
        public_access_cidrs |-> <<>>]}

\* the resolved config of an input whose endpoint and access blocks were given: the
\* resolver copies both blocks
ResolvedWith(input_config, endpoints, access) ==
    [resolve_customer_config(input_config, 0) EXCEPT
        !.vpc_config.vpc_endpoints = endpoints,
        !.eks_config.access = access]

ValidateCalls ==
    {[input |-> CustomerConfigInput(<<"a">>, DefaultRegion,
                                    VpcConfigInput(cidr, secondary, nat, <<>>,
                                                   custom.private_subnets, custom.pod_subnets),
                                    service),
      endpoints |-> endpoints,
      access |-> access] :
        cidr \in ValidatedVpcCidrs, secondary \in SecondaryLists,
        nat \in {NAT_SINGLE, NAT_NONE}, custom \in CustomTiers,
        service \in {DefaultServiceCidr, DefaultVpcCidr},
        endpoints \in EndpointChoices, access \in AccessChoices}

\* the resolved config of a call
ResolvedOf(call) == ResolvedWith(call.input, call.endpoints, call.access)

InitValidate ==
    /\ Started
    /\ variant = "automation"
    /\ NothingInstalled
    /\ arg \in ValidateCalls
    /\ ret = NoRet

validate_config_call ==
    /\ ret = NoRet
    /\ ret' = <<validate_config(arg.input, ResolvedOf(arg))>>
    /\ UNCHANGED <<variant, secret, configs, db, clock, tasks, engine, last, resp, arg,
                   addons, ssm, time>>

NextValidate == validate_config_call

SpecValidate == InitValidate /\ [][NextValidate]_vars

----------------------------------------------------------------------------
(* api/config_resolver.py: the tags of custom subnets.  A tag map is the set of its *)
(* <<key, value>> pairs.                                                            *)

\* {**first, **second}: a key of the second map replaces the same key of the first
MergeTags(first, second) ==
    {p \in first : \A q \in second : q[1] # p[1]} \cup second

\* global_tags of resolve_customer_config
GlobalTags(customer_id, environment, tags) ==
    MergeTags({<<"Environment", environment>>, <<"Customer", customer_id>>,
               <<"ManagedBy", "pulumi">>}, tags)

\* the tags a custom subnet of a tier is resolved with: resolve_subnets for the public
\* tier, the comprehensions of resolve_vpc_config for the private and the pod tier
CustomSubnetTags(subnet_type, global_tags, subnet_tags) ==
    IF subnet_type = "public"
    THEN MergeTags(global_tags, subnet_tags)
    ELSE MergeTags(MergeTags({<<"SubnetType", subnet_type>>,
                              <<"kubernetes.io/role/internal-elb", "1">>}, global_tags),
                   subnet_tags)

\* the resolved subnets of a tier the caller gave custom subnets for
CustomSubnetsTagged(custom_subnets, subnet_type, customer_id, global_tags) ==
    [i \in 1..Len(custom_subnets) |->
        [cidr_block |-> custom_subnets[i].cidr_block,
         availability_zone |-> custom_subnets[i].availability_zone,
         name |-> SubnetName(customer_id, subnet_type, custom_subnets[i].availability_zone),
         tags |-> CustomSubnetTags(subnet_type, global_tags, custom_subnets[i].tags)]]

\* tag maps a caller puts on a subnet: none, one of its own, one on a role key
CallerTags ==
    {{}, {<<"team", "x">>}, {<<"kubernetes.io/role/internal-elb", "0">>}}

\* custom subnets: a range, a zone of the region, the caller's tags
TaggedSubnetInputs ==
    {[cidr_block |-> c, availability_zone |-> get_default_availability_zones(DefaultRegion, 2)[z],
      tags |-> t] :
        c \in {<<10, 0, 0, 0, 24>>, <<10, 0, 77, 9, 24>>}, z \in 1..2, t \in CallerTags}

\* the calls: a tier, one or two custom subnets for it, the tags of the config
CustomTierCalls ==
    {[subnet_type |-> tier, custom_subnets |-> list, tags |-> t] :
        tier \in SubnetTiers,
        list \in {<<s>> : s \in TaggedSubnetInputs}
                 \cup {<<s1, s2>> : s1 \in TaggedSubnetInputs, s2 \in TaggedSubnetInputs},
        t \in {{}, {<<"team", "y">>}}}

InitCustomTier ==
    /\ Started
    /\ variant = "api"
    /\ NothingInstalled
    /\ arg \in CustomTierCalls
    /\ ret = NoRet

\* resolve_vpc_config resolving the tier of the call for tenant a in environment prod
resolve_custom_tier ==
    /\ ret = NoRet
    /\ ret' = <<CustomSubnetsTagged(arg.custom_subnets, arg.subnet_type, <<"a">>,
                                    GlobalTags(<<"a">>, <<"prod">>, arg.tags))>>
    /\ UNCHANGED <<variant, secret, configs, db, clock, tasks, engine, last, resp, arg,
                   addons, ssm, time>>

NextCustomTier == resolve_custom_tier

SpecCustomTier == InitCustomTier /\ [][NextCustomTier]_vars

----------------------------------------------------------------------------
(* routes/configs.py over the stored configs themselves.  arg is the store: for each  *)
(* tenant id no or one resolved config (the JSON file written by save and parsed by   *)
(* get, which keeps every field, the timestamps with their microseconds); configs is  *)
(* the set of ids that have a file; ret is the last request and its answer.           *)

\* the tenant whose config is created; requests for the other tenant meet no config
StoredTenant == <<"a">>

\* the answer kept of a request to the config routes
ConfigAnswer(op, customer_id, request, code) ==
    [op |-> op, customer_id |-> customer_id, request |-> request, code |-> code]

\* config_storage.get
StoredConfig(customer_id) == arg[customer_id]

\* the store after config_storage.save(customer_id, config)
Saved(customer_id, config) ==
    /\ arg' = [arg EXCEPT ![customer_id] = <<config>>]
    /\ configs' = configs \cup {customer_id}

InitStore ==
    /\ Started
    /\ variant = "api"
    /\ NothingInstalled
    /\ arg = [c \in CustomerIds |->
                 IF c \in configs
                 THEN <<resolve_customer_config(
                            CustomerConfigInput(c, DefaultRegion,
                                                VpcConfigInput(DefaultVpcCidr, <<>>, NAT_SINGLE,
                                                               <<>>, <<>>, <<>>),
                                                DefaultServiceCidr), 0)>>
                 ELSE <<>>]
    /\ ret = NoRet

\* POST /configs over the store
create_config_stored(request) ==
    IF StoredConfig(request.customer_id) # <<>>
    THEN /\ ret' = ConfigAnswer("create", request.customer_id, request, 409)
         /\ UNCHANGED <<variant, secret, configs, db, clock, tasks, engine, last, resp, arg,
                        addons, ssm, time>>
    ELSE \E now \in Nows :
            LET resolved == resolve_customer_config(request, now) IN
            /\ clock' = now
            /\ IF validate_config(request, resolved) = {}
               THEN /\ Saved(request.customer_id, resolved)
                    /\ ret' = ConfigAnswer("create", request.customer_id, request, 201)
               ELSE /\ ret' = ConfigAnswer("create", request.customer_id, request, 400)
                    /\ UNCHANGED <<arg, configs>>
            /\ UNCHANGED <<variant, secret, db, tasks, engine, last, resp, addons, ssm, time>>

\* an update that keeps the ranges of the stored config and takes the rest from the input
UpdatedConfig_patched(existing_config, request, now) ==
    [resolve_customer_config(request, now) EXCEPT
        !.created_at = existing_config.created_at,
        !.vpc_config = existing_config.vpc_config]

\* resolved = resolve_customer_config(request); resolved.created_at = existing_config.created_at
UpdatedConfig(existing_config, request, now) ==
    [resolve_customer_config(request, now) EXCEPT !.created_at = existing_config.created_at]

\* an update that saves the body under the id of the path without comparing the two ids
update_config_unmatched(customer_id, request) ==
    IF StoredConfig(customer_id) = <<>>
    THEN /\ ret' = ConfigAnswer("update", customer_id, request, 404)
         /\ UNCHANGED <<variant, secret, configs, db, clock, tasks, engine, last, resp, arg,
                        addons, ssm, time>>
    ELSE \E now \in Nows :
            LET resolved == UpdatedConfig(StoredConfig(customer_id)[1], request, now) IN
            /\ clock' = now
            /\ IF validate_config(request, resolved) = {}
               THEN /\ Saved(customer_id, resolved)
                    /\ ret' = ConfigAnswer("update", customer_id, request, 200)
               ELSE /\ ret' = ConfigAnswer("update", customer_id, request, 400)
                    /\ UNCHANGED <<arg, configs>>
            /\ UNCHANGED <<variant, secret, db, tasks, engine, last, resp, addons, ssm, time>>

\* PUT /configs/{customer_id}
update_config(customer_id, request) ==
    IF StoredConfig(customer_id) = <<>>
    THEN /\ ret' = ConfigAnswer("update", customer_id, request, 404)
         /\ UNCHANGED <<variant, secret, configs, db, clock, tasks, engine, last, resp, arg,
                        addons, ssm, time>>
    ELSE IF request.customer_id # customer_id
    THEN /\ ret' = ConfigAnswer("update", customer_id, request, 400)
         /\ UNCHANGED <<variant, secret, configs, db, clock, tasks, engine, last, resp, arg,
                        addons, ssm, time>>
    ELSE \E now \in Nows :
            LET resolved == UpdatedConfig(StoredConfig(customer_id)[1], request, now) IN
            /\ clock' = now
            /\ IF validate_config(request, resolved) = {}
               THEN /\ Saved(customer_id, resolved)
                    /\ ret' = ConfigAnswer("update", customer_id, request, 200)
               ELSE /\ ret' = ConfigAnswer("update", customer_id, request, 400)
                    /\ UNCHANGED <<arg, configs>>
            /\ UNCHANGED <<variant, secret, db, tasks, engine, last, resp, addons, ssm, time>>

\* DELETE /configs/{customer_id} over the store
delete_config_stored(customer_id) ==
    /\ IF StoredConfig(customer_id) = <<>>
       THEN /\ ret' = ConfigAnswer("delete", customer_id, <<>>, 404)
            /\ UNCHANGED <<arg, configs>>
       ELSE /\ ret' = ConfigAnswer("delete", customer_id, <<>>, 204)
            /\ arg' = [arg EXCEPT ![customer_id] = <<>>]
            /\ configs' = configs \ {customer_id}
    /\ UNCHANGED <<variant, secret, db, clock, tasks, engine, last, resp, addons, ssm, time>>

NextStore ==
    \/ \E request \in ResolveInputs :
          request.customer_id = StoredTenant /\ create_config_stored(request)
    \/ \E customer_id \in CustomerIds, request \in ResolveInputs :
          update_config(customer_id, request)
    \/ \E customer_id \in CustomerIds : delete_config_stored(customer_id)

SpecStore == InitStore /\ [][NextStore]_vars

----------------------------------------------------------------------------
(* The background tasks under fair scheduling: automation/api/routes/deployments.py,      *)
(* run_deployment and run_destroy as FastAPI background tasks on the event loop           *)

\* a record left by an earlier attempt of stack a-d that ended in the given status
SettledTable(status) ==
    LET one == create_deployment(<<>>, <<"a">>, <<"d">>, 0)
    IN update_deployment_status(one, StackName(<<"a">>, <<"d">>), status,
                                RunId("update", 1), None,
                                IF status = FAILED THEN EngineError ELSE EmptyStr, 0)

\* no record yet, or the record of an attempt that succeeded or failed
InitProgress ==
    /\ variant \in {"api", "automation"}
    /\ secret = <<"s">>
    /\ configs = {<<"a">>}
    /\ db \in {<<>>, SettledTable(SUCCEEDED), SettledTable(FAILED)}
    /\ clock = 0
    /\ tasks = EmptyBag
    /\ engine = 1
    /\ last = NoRequest
    /\ resp = NoResp
    /\ NothingInstalled
    /\ arg = NoArg
    /\ ret = NoRet

\* the writes a task in flight may still make: the first status write and the final one
WritesLeft(ts) ==
    InFlight(ts) + BagCardinality([t \in {u \in BagToSet(ts) : u.pc = "start"} |-> ts[t]])

\* the timestamps are bounded: a request is taken up only while the clock has room for its
\* own writes and for those of the tasks in flight, so that no task is cut short by the bound
ClockHasRoom(writes) == clock + WritesLeft(tasks) + writes <= MaxClock

\* a step of run_deployment or run_destroy: the event loop resumes a task whose await is over
BackgroundStep ==
    \/ \E t \in Running(tasks), raised \in BOOLEAN :
         /\ Handle(TaskStep(t, Raised(raised)))
         /\ run_deployment(t, raised)
    \/ \E t \in Running(tasks), raised \in BOOLEAN :
         /\ Handle(TaskStep(t, Raised(raised)))
         /\ run_destroy(t, raised)

NextProgress ==
    \/ \E c \in CustomerIds, e \in Environments :
         /\ ClockHasRoom(3)
         /\ Handle(Request("deploy", c, e, EmptyStr, "", "", EmptyStr))
         /\ deploy(c, e)
    \/ \E c \in CustomerIds, e \in Environments, confirm \in BOOLEAN :
         /\ ClockHasRoom(2)
         /\ Handle(Request("destroy", c, e, EmptyStr, "", IF confirm THEN "confirm" ELSE "", EmptyStr))
         /\ destroy(c, e, confirm)
    \/ BackgroundStep
    \/ Acknowledge

\* the event loop keeps its ready tasks in a queue and runs each in turn, however many
\* requests keep arriving: a task that is ready again and again is resumed (strong
\* fairness); and every response goes out
SpecProgress ==
    /\ InitProgress
    /\ [][NextProgress]_vars
    /\ SF_vars(BackgroundStep)
    /\ WF_vars(Acknowledge)

----------------------------------------------------------------------------
(* Properties *)

\* the one stack that can be deployed, and its row (0 when there is none)
TheCustomer == <<"a">>
TheEnvironment == <<"d">>
TheRow(rows) == get_deployment(rows, TheCustomer, TheEnvironment)

\* this step is the delivery of a verified webhook for the stack, its row existing
Delivered(operation, outcome) ==
    /\ last'.kind = "webhook"
    /\ last'.stack = StackIdentifier(variant, TheCustomer, TheEnvironment)
    /\ last'.operation = operation
    /\ last'.outcome = outcome
    /\ TheRow(db) # 0

\* the last step was such a delivery
WasDelivered(operation, outcome) ==
    /\ last.kind = "webhook"
    /\ last.stack = StackIdentifier(variant, TheCustomer, TheEnvironment)
    /\ last.operation = operation
    /\ last.outcome = outcome
    /\ TheRow(db) # 0

\* the handler of "update succeeded" has been entered and waits for the outputs
Entered(st) ==
    Task("_handle_deployment_succeeded", TheCustomer, TheEnvironment, "get_stack_outputs",
         [status |-> st, pulumi_deployment_id |-> None], None)

C1_Applied(v) ==
    IF v = "api" THEN {PENDING, IN_PROGRESS} ELSE {PENDING, IN_PROGRESS, SUCCEEDED}

NotProcessed(r) == r.code = 200 /\ r.received /\ ~r.processed /\ r.reason # ""

\* text s begins with text p
StartsWith(s, p) == Len(s) >= Len(p) /\ SubSeq(s, 1, Len(p)) = p

\* C2: an "update failed" event is applied only while the record is PENDING or
\* IN_PROGRESS (the record then becomes FAILED and one automatic destroy is scheduled);
\* delivered in FAILED, SUCCEEDED, DESTROYING or DESTROYED it changes no field of the
\* record, schedules nothing and is answered processed=false.
C2_FailedApplied ==
    [][Delivered("update", "failed") =>
          IF db[TheRow(db)].status \in {PENDING, IN_PROGRESS}
          THEN /\ db'[TheRow(db)].status = FAILED
               /\ Background(tasks', "_trigger_auto_destroy")
                     = Background(tasks, "_trigger_auto_destroy") + 1
               /\ resp'.processed
          ELSE /\ db' = db
               /\ tasks' = tasks
               /\ NotProcessed(resp')]_vars

\* an "update failed" event delivered while the record is FAILED has been refused
C2_Witness ==
    /\ WasDelivered("update", "failed")
    /\ db[TheRow(db)].status = FAILED
    /\ Background(tasks, "_trigger_auto_destroy") = 0
    /\ NotProcessed(resp)

\* C3: a "destroy succeeded" or "destroy failed" event is applied only while the record
\* is DESTROYING: the success sets DESTROYED and empties outputs and error_message, the
\* failure sets FAILED with an error_message that starts with "Destroy failed: "; in
\* every other status the record is unchanged and the answer is processed=false.
C3_DestroyApplied ==
    [][(Delivered("destroy", "succeeded") \/ Delivered("destroy", "failed")) =>
          IF db[TheRow(db)].status # DESTROYING
          THEN /\ db' = db
               /\ tasks' = tasks
               /\ NotProcessed(resp')
          ELSE /\ resp'.processed
               /\ IF last'.outcome = "succeeded"
                  THEN /\ db'[TheRow(db)].status = DESTROYED
                       /\ db'[TheRow(db)].outputs = EmptyStr
                       /\ db'[TheRow(db)].error_message = EmptyStr
                  ELSE /\ db'[TheRow(db)].status = FAILED
                       /\ StartsWith(db'[TheRow(db)].error_message, <<"Destroy failed: ">>)
                       /\ db'[TheRow(db)].outputs = db[TheRow(db)].outputs]_vars

\* a "destroy failed" event with a message has been applied to a DESTROYING record
C3_Witness ==
    /\ WasDelivered("destroy", "failed")
    /\ last.message # EmptyStr
    /\ resp.processed
    /\ db[TheRow(db)].status = FAILED
    /\ db[TheRow(db)].error_message = <<"Destroy failed: ">> \o last.message

\* the rows of a stack
RowsOf(rows, stack_name) == {k \in DOMAIN rows : rows[k].stack_name = stack_name}

\* C4: a deploy request for a stack whose record is IN_PROGRESS or DESTROYING is
\* answered 409, leaves the table as it is, schedules no task, and the stack has exactly
\* one record afterwards; a deploy request for a tenant without a stored config is
\* answered 404 and creates no record.
C4_DeployRejected ==
    [][last'.kind = "deploy" =>
          LET customer_id == last'.customer_id
              environment == last'.environment
              existing == get_deployment(db, customer_id, environment)
          IN
          /\ customer_id \notin configs =>
                /\ resp'.code = 404
                /\ db' = db
                /\ tasks' = tasks
                /\ RowsOf(db', StackName(customer_id, environment)) = {}
          /\ (/\ customer_id \in configs
              /\ existing # 0
              /\ db[existing].status \in {IN_PROGRESS, DESTROYING}) =>
                /\ resp'.code = 409
                /\ db' = db
                /\ tasks' = tasks
                /\ Cardinality(RowsOf(db', StackName(customer_id, environment))) = 1]_vars

\* a deploy request has been refused with 409 while the record is DESTROYING
C4_Witness ==
    /\ last.kind = "deploy"
    /\ resp.code = 409
    /\ TheRow(db) # 0
    /\ db[TheRow(db)].status = DESTROYING

\* C5: a destroy request is answered 422 when confirm is not true, 404 when the stack
\* has no record, 409 when the record is IN_PROGRESS, DESTROYING or DESTROYED; whenever
\* it is refused the table is unchanged, no destroy task is scheduled and nothing is sent
\* to the engine.
C5_DestroyRejected ==
    [][last'.kind = "destroy" =>
          LET confirm == last'.outcome = "confirm"
              existing == get_deployment(db, last'.customer_id, last'.environment)
          IN
          /\ ~confirm => resp'.code = 422
          /\ (confirm /\ existing = 0) => resp'.code = 404
          /\ (/\ confirm
              /\ existing # 0
              /\ db[existing].status \in {IN_PROGRESS, DESTROYING, DESTROYED}) =>
                resp'.code = 409
          /\ resp'.code \in {422, 404, 409} =>
                /\ db' = db
                /\ tasks' = tasks
                /\ engine' = engine
          /\ resp'.code \in {422, 404, 409, 202}]_vars

\* a confirmed destroy request has been refused with 409 while the record is DESTROYED
C5_Witness ==
    /\ last.kind = "destroy"
    /\ last.outcome = "confirm"
    /\ resp.code = 409
    /\ TheRow(db) # 0
    /\ db[TheRow(db)].status = DESTROYED

\* C6: when the handler of an accepted "update succeeded" event resumes with the
\* outputs, the record gets status SUCCEEDED, those outputs and an empty error_message
\* in the step that schedules the one addon install; when the fetch raised, the table
\* is unchanged, no addon install is scheduled and the answer is processed=false with a
\* reason. An addon install is scheduled in no other step, and while one is scheduled
\* or running the record has outputs.
C6_OutputsBeforeAddons ==
    /\ [][/\ last'.kind = "_handle_deployment_succeeded" =>
               LET i == get_deployment(db, last'.customer_id, last'.environment) IN
               IF last'.outcome = "raised"
               THEN /\ db' = db
                    /\ Background(tasks', "install_addons_after_delay")
                          = Background(tasks, "install_addons_after_delay")
                    /\ NotProcessed(resp')
               ELSE /\ db'[i].status = SUCCEEDED
                    /\ db'[i].outputs \in EngineOutputs
                    /\ db'[i].error_message = EmptyStr
                    /\ Background(tasks', "install_addons_after_delay")
                          = Background(tasks, "install_addons_after_delay") + 1
                    /\ resp'.processed
          /\ Background(tasks', "install_addons_after_delay")
                > Background(tasks, "install_addons_after_delay") =>
               /\ last'.kind = "_handle_deployment_succeeded"
               /\ last'.outcome = "ok"]_vars
    /\ [](\A t \in Running(tasks) :
            t.kind = "install_addons_after_delay" =>
               LET i == get_deployment(db, t.customer_id, t.environment) IN
               i # 0 /\ db[i].outputs # None)

\* the handler has resumed with the outputs: they are in the SUCCEEDED record and the
\* addon install is scheduled
C6_Witness ==
    /\ last.kind = "_handle_deployment_succeeded"
    /\ last.outcome = "ok"
    /\ resp.processed
    /\ db[TheRow(db)].status = SUCCEEDED
    /\ db[TheRow(db)].outputs = <<"{access_node}">>
    /\ Background(tasks, "install_addons_after_delay") = 1

\* C7: an accepted "update failed" event makes the record FAILED with the event's
\* message (or "Deployment failed" when it has none) and schedules one automatic
\* destroy; that task first writes DESTROYING, then sends one destroy request to the
\* engine; if the request raises, the record becomes FAILED with an error_message that
\* starts with "Auto-destroy failed: ", the task ends and no automatic destroy is
\* scheduled by it. An automatic destroy is scheduled by no other step.
C7_AutoDestroy ==
    [][/\ (Delivered("update", "failed") /\ db[TheRow(db)].status \in {PENDING, IN_PROGRESS}) =>
            /\ db'[TheRow(db)].status = FAILED
            /\ db'[TheRow(db)].error_message
                  = IF last'.message = EmptyStr THEN <<"Deployment failed">> ELSE last'.message
            /\ tasks' = add_task(tasks, "_trigger_auto_destroy", TheCustomer, TheEnvironment)
       /\ last'.kind = "_trigger_auto_destroy" =>
            LET i == get_deployment(db, last'.customer_id, last'.environment) IN
            /\ Background(tasks', "_trigger_auto_destroy")
                  <= Background(tasks, "_trigger_auto_destroy")
            /\ last'.operation = "start" =>
                  db'[i].status = DESTROYING /\ engine' = engine
            /\ (last'.operation = "trigger_deployment" /\ last'.outcome = "ok") =>
                  engine' = engine + 1 /\ db' = db
            /\ (last'.operation = "trigger_deployment" /\ last'.outcome = "raised") =>
                  /\ engine' = engine
                  /\ db'[i].status = FAILED
                  /\ StartsWith(db'[i].error_message, <<"Auto-destroy failed: ">>)
                  /\ Background(tasks', "_trigger_auto_destroy")
                        = Background(tasks, "_trigger_auto_destroy") - 1
            /\ last'.operation = "triggered" =>
                  /\ engine' = engine
                  /\ db'[i].status = DESTROYING
                  /\ Background(tasks', "_trigger_auto_destroy")
                        = Background(tasks, "_trigger_auto_destroy") - 1
       /\ Background(tasks', "_trigger_auto_destroy")
             > Background(tasks, "_trigger_auto_destroy") =>
            /\ last'.kind = "webhook"
            /\ last'.operation = "update"
            /\ last'.outcome = "failed"]_vars

\* the destroy request of an automatic destroy has raised: the record is FAILED with
\* the prefixed text and no automatic destroy is left
C7_Witness ==
    /\ last.kind = "_trigger_auto_destroy"
    /\ last.operation = "trigger_deployment"
    /\ last.outcome = "raised"
    /\ db[TheRow(db)].status = FAILED
    /\ db[TheRow(db)].error_message = <<"Auto-destroy failed: ">> \o EngineError
    /\ Background(tasks, "_trigger_auto_destroy") = 0

C9_DeployFailureAbsorbed ==
    [][last'.kind = "run_deployment" =>
          LET i == get_deployment(db, last'.customer_id, last'.environment) IN
          /\ resp' = NoResp
          /\ (/\ last'.operation \in {"configure_deployment_settings", "trigger_deployment"}
              /\ last'.outcome = "raised") =>
                /\ db'[i].status = FAILED
                /\ db'[i].error_message = EngineError
                /\ engine' = engine
                /\ \E t \in Running(tasks) :
                      /\ t.kind = "run_deployment" /\ t.pc = last'.operation
                      /\ tasks' = Finish(tasks, t)
          /\ last'.operation = "create_stack" =>
                /\ db' = db
                /\ \E t \in Running(tasks) :
                      /\ t.kind = "run_deployment" /\ t.pc = "create_stack"
                      /\ tasks' = Goto(tasks, t, "configure_deployment_settings")]_vars

\* trigger_deployment has raised in run_deployment: the record is FAILED with the
\* failure text and no deploy task is left
C9_Witness ==
    /\ last.kind = "run_deployment"
    /\ last.operation = "trigger_deployment"
    /\ last.outcome = "raised"
    /\ resp = NoResp
    /\ db[TheRow(db)].status = FAILED
    /\ db[TheRow(db)].error_message = EngineError
    /\ Background(tasks, "run_deployment") = 0

\* the identifier is the one the engine sends for a stack that has a record
NamesRecord(rows, v, stack) ==
    \E k \in DOMAIN rows : stack = StackIdentifier(v, rows[k].customer_id, rows[k].environment)

\* C10: a verified webhook whose stack identifier is missing, is not the identifier of
\* a stack with a record (unparseable or unknown), or whose operation is "preview" or
\* unknown, or whose outcome is neither "succeeded" nor "failed", is answered
\* received=true, processed=false with a reason; the table is unchanged and no task is
\* scheduled.
C10_WebhookIgnored ==
    [][(/\ last'.kind = "webhook"
        /\ \/ last'.stack = EmptyStr
           \/ ~NamesRecord(db, variant, last'.stack)
           \/ last'.operation \notin {"update", "destroy"}
           \/ last'.outcome \notin {"succeeded", "failed"}) =>
          /\ NotProcessed(resp')
          /\ db' = db
          /\ tasks' = tasks]_vars

\* a webhook whose identifier has no "-" has been ignored while the stack's record
\* waits for its outcome
C10_Witness ==
    /\ last.kind = "webhook"
    /\ last.stack = <<"o", "/", "p", "/", "a", "d">>
    /\ NotProcessed(resp)
    /\ TheRow(db) # 0
    /\ db[TheRow(db)].status = IN_PROGRESS

\* C11 as stated: for every tenant id and environment name the input models accept,
\* parsing the identifier of the stack "{tenant}-{environment}" in the webhook handler
\* gives back that very pair, and no other accepted pair has the same stack name.
C11_AsStated ==
    ret # NoRet =>
        /\ ret = arg
        /\ \A p \in AcceptedPairs :
              StackName(p[1], p[2]) = StackName(arg[1], arg[2]) => p = arg

\* the installer calls that left a point of their code in this step
Left(kind, pc) ==
    {t \in Running(tasks) : t.kind = kind /\ t.pc = pc /\ CopiesIn(t, tasks') < CopiesIn(t, tasks)}

\* C12: an install command is sent only for a deployment that has succeeded. The automatic
\* install is scheduled only by the success handling, in the step that writes SUCCEEDED; its
\* sleep ends ADDON_INSTALL_DELAY_SECONDS after it began and only a sleeper whose sleep is
\* over goes on to send; a command is sent by nothing but such a sleeper or a manual call;
\* a manual call starts only for a SUCCEEDED record, and a manual request for a record in
\* another status is answered 400, starts nothing, sends nothing and writes no state file.
C12_InstallAfterSucceeded ==
    [][ /\ Background(tasks', "install_addons_after_delay")
              > Background(tasks, "install_addons_after_delay") =>
            /\ last'.kind = "_handle_deployment_succeeded"
            /\ get_deployment(db', last'.customer_id, last'.environment) # 0
            /\ db'[get_deployment(db', last'.customer_id, last'.environment)].status = SUCCEEDED
            /\ db' # db
        /\ \A t \in Left("install_addons_after_delay", "start") :
              \E u \in Running(tasks') :
                 /\ u.kind = t.kind /\ u.pc = "sleep"
                 /\ u.snap.wake = time + ADDON_INSTALL_DELAY_SECONDS
                 /\ CopiesIn(u, tasks') > CopiesIn(u, tasks)
        /\ \A t \in Left("install_addons_after_delay", "sleep") : time >= t.snap.wake
        /\ ssm' # ssm =>
              \/ Left("install_addons_after_delay", "sleep") # {}
              \/ Left("install_argocd", "send_command") # {}
        /\ last'.kind = "addons/argocd/install" =>
              LET deployment == get_deployment(db, last'.customer_id, last'.environment) IN
              IF deployment # 0 /\ db[deployment].status = SUCCEEDED
              THEN ssm' = ssm /\ addons' = addons
              ELSE /\ resp'.code = IF deployment = 0 THEN 404 ELSE 400
                   /\ tasks' = tasks
                   /\ ssm' = ssm
                   /\ addons' = addons
      ]_vars

\* the automatic install of a succeeded stack has slept its delay and has just sent its
\* command
C12_Witness ==
    /\ last.kind = "install_addons_after_delay" /\ last.operation = "sleep"
    /\ time >= ADDON_INSTALL_DELAY_SECONDS
    /\ Len(ssm) = 1
    /\ \E t \in Running(tasks) : t.kind = "install_addons_after_delay" /\ t.pc = "read_text"

\* the CommandIds of the commands sent for a tenant's addon, in any environment
DispatchedFor(commands, customer_id, addon_name) ==
    {k \in 1..Len(commands) : /\ commands[k].customer_id = customer_id
                              /\ commands[k].addon_name = addon_name}

\* the installer calls that write their state file in this step
Saving == Left("install_addons_after_delay", "write_text") \cup Left("install_argocd", "write_text")

\* the installer calls for a tenant that have sent their command and not yet saved it
Unsaved(customer_id) ==
    {t \in Running(tasks) : /\ t.customer_id = customer_id
                            /\ t.pc \in {"read_text", "write_text"}}

\* C13 as stated: the save that follows a dispatch sets the record of its addon name to
\* the new command id, the host id and the time, and leaves the records of the other addon
\* names as they were; a status request is answered 404 when no command was ever sent for
\* its addon and, once every dispatch has saved its record, polls the command id of the
\* latest command sent for that addon.
C13_AsStated ==
    [][ /\ \A t \in Saving :
              LET path == _state_path(t.customer_id, t.environment) IN
              /\ addons'[path][t.snap.addon_name] =
                    [last_command_id |-> t.snap.command_id,
                     instance_id |-> AccessNodeInstanceId,
                     triggered_at |-> time]
              /\ \A n \in AddonNames \ {t.snap.addon_name} : addons'[path][n] = addons[path][n]
        /\ last'.kind = "addons/argocd/status" =>
              LET sent == DispatchedFor(ssm, last'.customer_id, StatusAddonName) IN
              IF sent = {}
              THEN resp'.code = 404
              ELSE Unsaved(last'.customer_id) = {} =>
                     /\ resp'.code = 200
                     /\ \A k \in sent : k <= resp'.ssm_command_id
      ]_vars

\* C14: the status of an install result is defined for whatever SSM reports about the
\* saved command: PENDING when SSM does not know the invocation yet, IN_PROGRESS for
\* Pending, InProgress and Delayed, SUCCEEDED for Success, and FAILED for every other
\* Status, the empty one included; the request is answered 200 in each case.
C14_StatusMapping ==
    [][ /\ last'.kind = "addons/argocd/status"
        /\ _load_addon_state(addons, last'.customer_id, last'.environment, StatusAddonName)
              # NoAddonState
        => /\ resp'.code = 200
           /\ resp'.status =
                 CASE last'.outcome = InvocationDoesNotExist -> ADDON_PENDING
                   [] last'.outcome = "Pending" -> ADDON_IN_PROGRESS
                   [] last'.outcome = "InProgress" -> ADDON_IN_PROGRESS
                   [] last'.outcome = "Delayed" -> ADDON_IN_PROGRESS
                   [] last'.outcome = "Success" -> ADDON_SUCCEEDED
                   [] OTHER -> ADDON_FAILED
      ]_vars

\* SSM reported an invocation without a Status and the install is answered as failed
C14_Witness ==
    /\ last.kind = "addons/argocd/status"
    /\ last.outcome = ""
    /\ resp.code = 200
    /\ resp.status = ADDON_FAILED

\* C15 as stated: install records are kept per tenant and environment, so a status request
\* for an environment that is answered with a command polls a command that was sent for
\* that environment of that tenant, never one sent for another environment.
C15_AsStated ==
    [][ last'.kind = "addons/argocd/status" /\ resp'.code = 200 =>
            /\ resp'.ssm_command_id \in 1..Len(ssm)
            /\ ssm[resp'.ssm_command_id].customer_id = last'.customer_id
            /\ ssm[resp'.ssm_command_id].environment = last'.environment
      ]_vars

\* C18: the allocator returns one block per availability zone, in the order of the zones;
\* the i-th block (counting from 0) has the requested prefix length and starts
\* (offset + i) * 2^(32 - prefix) addresses after the network address of the VPC range.
\* For 10.0.0.0/16, three zones, prefix 24 and offset 0 the blocks are 10.0.0.0/24,
\* 10.0.1.0/24 and 10.0.2.0/24.
C18_AllocatorBlocks ==
    ret # NoRet =>
        LET blocks == ret[1]
            base == IpInt(arg.vpc_cidr) - (IpInt(arg.vpc_cidr) % 2^(32 - arg.vpc_cidr[5]))
        IN
        /\ Len(blocks) = Len(arg.availability_zones)
        /\ \A i \in 1..Len(blocks) :
              /\ blocks[i][2] = arg.availability_zones[i]
              /\ blocks[i][1][5] = arg.cidr_mask
              /\ IpInt(blocks[i][1]) = base + (arg.offset_blocks + i - 1) * 2^(32 - arg.cidr_mask)
              /\ \A k \in 1..4 : blocks[i][1][k] \in 0..255
        /\ ( /\ arg.vpc_cidr = <<10, 0, 0, 0, 16>>
             /\ Len(arg.availability_zones) = 3
             /\ arg.cidr_mask = 24
             /\ arg.offset_blocks = 0 )
           => /\ blocks[1][1] = <<10, 0, 0, 0, 24>>
              /\ blocks[2][1] = <<10, 0, 1, 0, 24>>
              /\ blocks[3][1] = <<10, 0, 2, 0, 24>>

\* the allocator was called for three zones with an offset and returned three blocks
C18_Witness ==
    /\ ret # NoRet
    /\ Len(arg.availability_zones) = 3
    /\ arg.offset_blocks = 2
    /\ arg.cidr_mask = 20
    /\ arg.vpc_cidr = <<172, 20, 0, 0, 16>>
    /\ ret[1][3][1] = <<172, 20, 64, 0, 20>>

\* the first and the last address of a range
FirstAddress(cidr) == IpInt(cidr) - (IpInt(cidr) % 2^(32 - cidr[5]))
LastAddress(cidr) == FirstAddress(cidr) + 2^(32 - cidr[5]) - 1

\* C16: in a resolved config that passes validation, any two distinct subnets of the
\* public, private and pod tiers together have disjoint address ranges
C16_SubnetsDisjoint ==
    (ret # NoRet /\ ret[2] = {}) =>
        LET all == AllSubnets(ret[1].vpc_config) IN
        \A i, j \in 1..Len(all) :
            i # j => \/ LastAddress(all[i].cidr_block) < FirstAddress(all[j].cidr_block)
                     \/ LastAddress(all[j].cidr_block) < FirstAddress(all[i].cidr_block)

\* a config with a custom private and a custom pod subnet, and calculated public ones,
\* passes validation
C16_Witness ==
    /\ ret # NoRet
    /\ ret[2] = {}
    /\ arg.vpc_config.private_subnets # <<>>
    /\ arg.vpc_config.pod_subnets # <<>>
    /\ Len(AllSubnets(ret[1].vpc_config)) = 5

\* C17: in a resolved config that passes validation, the range of every public, private
\* and pod subnet lies inside the primary range of the VPC or inside one of the declared
\* secondary ranges
C17_SubnetsContained ==
    (ret # NoRet /\ ret[2] = {}) =>
        LET vpc == ret[1].vpc_config
            all == AllSubnets(vpc)
            ranges == {vpc.cidr_block} \cup Elements(vpc.secondary_cidr_blocks)
        IN
        \A i \in 1..Len(all) :
            \E r \in ranges :
                /\ FirstAddress(r) <= FirstAddress(all[i].cidr_block)
                /\ LastAddress(all[i].cidr_block) <= LastAddress(r)

\* a config with a custom private subnet and calculated pod subnets in the secondary
\* range passes validation
C17_Witness ==
    /\ ret # NoRet
    /\ ret[2] = {}
    /\ arg.vpc_config.private_subnets # <<>>
    /\ arg.vpc_config.pod_subnets = <<>>
    /\ Len(ret[1].vpc_config.pod_subnets) = 3
    /\ \A i \in 1..3 : ~is_subnet_of(ret[1].vpc_config.pod_subnets[i].cidr_block,
                                     ret[1].vpc_config.cidr_block)

\* the subnets of a tier, one per zone of the region in order, all with the given prefix
ThreeOf(subnets, prefix) ==
    /\ Len(subnets) = 3
    /\ \A i \in 1..3 :
          /\ subnets[i].cidr_block[5] = prefix
          /\ subnets[i].availability_zone = get_default_availability_zones(DefaultRegion, 3)[i]

\* the resolved subnets of a minimal input: 3 public /24, 3 private /20, no pod subnets
HappyPathSubnets(vpc_config) ==
    /\ ThreeOf(vpc_config.public_subnets, 24)
    /\ ThreeOf(vpc_config.private_subnets, 20)
    /\ vpc_config.pod_subnets = <<>>

\* the /16 range of the input shares addresses with the default service range 172.20.0.0/16
InServiceRange(cidr) == cidr[1] = 172 /\ cidr[2] = 20

\* C19 (amended): an input with only a tenant id, the account reference and a /16 VPC
\* range resolves to 3 public /24 subnets, 3 private /20 subnets and no pod subnets; the
\* validation of the input and its resolved config returns no violation unless the VPC
\* range is the default service range 172.20.0.0/16, and then it reports the service range
C19_HappyPath ==
    ret # NoRet =>
        /\ HappyPathSubnets(ret[1].vpc_config)
        /\ IF InServiceRange(arg.vpc_config.cidr_block)
           THEN ret[2] = {<<"eks_config.service_ipv4_cidr", 0>>}
           ELSE ret[2] = {}

\* the minimal input with 10.0.200.7/16 is resolved from 10.0.0.0 and passes validation
C19_Witness ==
    /\ ret # NoRet
    /\ arg.vpc_config.cidr_block = <<10, 0, 200, 7, 16>>
    /\ ret[1].vpc_config.public_subnets[3].cidr_block = <<10, 0, 2, 0, 24>>
    /\ ret[1].vpc_config.private_subnets[1].cidr_block = <<10, 0, 16, 0, 20>>
    /\ ret[2] = {}

\* C19 as stated: every such input resolves to 3 public /24, 3 private /20 and no pod
\* subnets and validation returns an empty violation list
C19_AsStated ==
    ret # NoRet => (HappyPathSubnets(ret[1].vpc_config) /\ ret[2] = {})

\* a resolved config without its two timestamps
WithoutTimestamps(resolved) == [resolved EXCEPT !.created_at = 0, !.updated_at = 0]

C21_AsStated ==
    ret # NoRet => arg = ret[1]

\* the input asks for the private access node
FeatureRequested ==
    arg.eks_config = <<[access |-> <<[ssm_access_node |-> <<[enabled |-> TRUE]>>]>>]>>

\* the user's value of an endpoint flag: the block's, or the default without a block
UserFlag(field) ==
    IF arg.vpc_endpoints = <<>> THEN field = "s3" ELSE arg.vpc_endpoints[1][field]

\* C22: with the private access node enabled, the resolved ssm, ssmmessages and
\* ec2messages flags are true whether the endpoint block is absent or present with any of
\* them false; without it each of the three equals the user's value (false when the block
\* is absent); no other endpoint flag depends on the feature
C22_ForcedEndpoints ==
    ret # NoRet =>
        /\ \A field \in SsmEndpointFields :
              ret[1][field] = (FeatureRequested \/ UserFlag(field))
        /\ \A field \in EndpointFields \ SsmEndpointFields :
              ret[1][field] = UserFlag(field)

\* the access node is enabled, the user's block switches ssm and ssmmessages off, and the
\* resolved flags are on
C22_Witness ==
    /\ ret # NoRet
    /\ FeatureRequested
    /\ arg.vpc_endpoints # <<>>
    /\ ~arg.vpc_endpoints[1].ssm
    /\ ~arg.vpc_endpoints[1].ssmmessages
    /\ arg.vpc_endpoints[1].ec2messages
    /\ ret[1].ssm /\ ret[1].ssmmessages /\ ret[1].ec2messages
    /\ ~ret[1].logs

\* the text has octets and a prefix length of an IPv4 network
WellFormed(cidr) == (\A k \in 1..4 : cidr[k] \in 0..255) /\ cidr[5] \in 0..32

\* two ranges have an address in common
SharesAddress(c1, c2) ==
    /\ WellFormed(c1) /\ WellFormed(c2)
    /\ ~(LastAddress(c1) < FirstAddress(c2) \/ LastAddress(c2) < FirstAddress(c1))

\* the first range lies inside the second
LiesInside(c1, c2) ==
    /\ WellFormed(c1) /\ WellFormed(c2)
    /\ FirstAddress(c2) <= FirstAddress(c1) /\ LastAddress(c1) <= LastAddress(c2)

\* the input-level rules an input of ValidateCalls can break
InputRulesBroken(input_config) ==
    {<<"vpc_config.secondary_cidr_blocks", k>> :
        k \in {i \in 1..Len(input_config.vpc_config.secondary_cidr_blocks) :
                 ~WellFormed(input_config.vpc_config.secondary_cidr_blocks[i])}}

\* the resolved-level rule instances a resolved config breaks, each named as reported
ResolvedRulesBroken(config) ==
    LET vpc == config.vpc_config
        eks == config.eks_config
        sec == vpc.secondary_cidr_blocks
        all == AllSubnets(vpc)
        zones(subnets) == {subnets[i].availability_zone : i \in 1..Len(subnets)}
        account == {config.aws_config.availability_zones[i] :
                       i \in 1..Len(config.aws_config.availability_zones)}
        nat == vpc.nat_gateway_strategy # NAT_NONE
        rule(broken, field, index) == IF broken THEN {<<field, index>>} ELSE {}
    IN
    rule(vpc.cidr_block[5] < 16 \/ vpc.cidr_block[5] > 24, "vpc_config.cidr_block", 0)
    \cup UNION {rule(SharesAddress(vpc.cidr_block, sec[k]),
                     "vpc_config.secondary_cidr_blocks", k) : k \in 1..Len(sec)}
    \cup rule(\E i, j \in 1..Len(sec) : i < j /\ SharesAddress(sec[i], sec[j]),
              "vpc_config.secondary_cidr_blocks", 0)
    \cup UNION {rule(~(\/ LiesInside(all[i].cidr_block, vpc.cidr_block)
                       \/ \E k \in 1..Len(sec) : LiesInside(all[i].cidr_block, sec[k])),
                     "not within VPC CIDR range", i) : i \in 1..Len(all)}
    \cup UNION {rule(\E j \in 1..Len(all) :
                        j > i /\ SharesAddress(all[i].cidr_block, all[j].cidr_block),
                     "overlaps", i) : i \in 1..Len(all)}
    \cup rule(nat /\ ~(zones(vpc.private_subnets) \subseteq zones(vpc.public_subnets)),
              "vpc_config.private_subnets", 0)
    \cup rule(nat /\ vpc.public_subnets = <<>>, "vpc_config.nat_gateway_strategy", 0)
    \cup rule(/\ vpc.nat_gateway_strategy = NAT_ONE_PER_AZ
              /\ ~(zones(vpc.private_subnets) \subseteq zones(vpc.public_subnets)),
              "vpc_config.nat_gateway_strategy", 1)
    \cup rule(SharesAddress(eks.service_ipv4_cidr, vpc.cidr_block),
              "eks_config.service_ipv4_cidr", 0)
    \cup UNION {rule(SharesAddress(eks.service_ipv4_cidr, sec[k]),
                     "eks_config.service_ipv4_cidr", k) : k \in 1..Len(sec)}
    \cup rule(eks.access.endpoint_private_access /\ vpc.private_subnets = <<>>,
              "eks_config.access.endpoint_private_access", 0)
    \cup rule(/\ eks.access.endpoint_public_access
              /\ ~eks.access.endpoint_private_access
              /\ eks.access.public_access_cidrs = <<>>,
              "eks_config.access.public_access_cidrs", 0)
    \cup UNION {rule(sec = <<>> /\ ~LiesInside(vpc.pod_subnets[i].cidr_block, vpc.cidr_block),
                     "vpc_config.pod_subnets", i) : i \in 1..Len(vpc.pod_subnets)}
    \cup rule(/\ eks.access.endpoint_private_access
              /\ ~eks.access.endpoint_public_access
              /\ ~nat
              /\ ~(vpc.vpc_endpoints.ecr_api /\ vpc.vpc_endpoints.ecr_dkr
                   /\ vpc.vpc_endpoints.sts),
              "vpc_config.vpc_endpoints", 0)
    \cup rule(~(zones(vpc.public_subnets) \subseteq account), "vpc_config.public_subnets", 0)
    \cup rule(~(zones(vpc.private_subnets) \subseteq account), "vpc_config.private_subnets", 1)

\* C23: when an input-level check fails, exactly the input-level violations are reported
\* and nothing of the resolved level; otherwise every resolved-level rule is evaluated
\* and the report holds the violation of each rule instance that is broken
C23_TwoPhases ==
    ret # NoRet =>
        IF InputRulesBroken(arg.input) # {}
        THEN ret[1] = InputRulesBroken(arg.input)
        ELSE ret[1] = ResolvedRulesBroken(ResolvedOf(arg))

\* a call whose input passes and whose resolved config breaks a rule of the range
\* checks, one of the cluster checks and one of the consistency checks, all reported
C23_Witness ==
    /\ ret # NoRet
    /\ InputRulesBroken(arg.input) = {}
    /\ <<"vpc_config.secondary_cidr_blocks", 0>> \in ret[1]
    /\ <<"eks_config.access.public_access_cidrs", 0>> \in ret[1]
    /\ <<"vpc_config.vpc_endpoints", 0>> \notin ret[1]
    /\ <<"vpc_config.private_subnets", 1>> \in ret[1]

\* the call passes the input-level checks and its two secondary ranges share addresses
TwoOverlappingSecondaries ==
    /\ InputRulesBroken(arg.input) = {}
    /\ Len(arg.input.vpc_config.secondary_cidr_blocks) = 2
    /\ SharesAddress(arg.input.vpc_config.secondary_cidr_blocks[1],
                     arg.input.vpc_config.secondary_cidr_blocks[2])

\* C24 (amended): a resolved config with two overlapping secondary ranges and a VPC prefix
\* outside /16../24 produces, in one call, the violation of the prefix length and the
\* violation of the overlapping secondary ranges; with an 18-prefix VPC, which is inside
\* the allowed range, the call reports the secondary ranges and no prefix violation
C24_ValidatorCompleteness ==
    (ret # NoRet /\ TwoOverlappingSecondaries) =>
        /\ <<"vpc_config.secondary_cidr_blocks", 0>> \in ret[1]
        /\ <<"vpc_config.cidr_block", 0>> \in ret[1]
              <=> (arg.input.vpc_config.cidr_block[5] < 16
                   \/ arg.input.vpc_config.cidr_block[5] > 24)

\* a /25 VPC with two overlapping secondary ranges: both violations in one report
C24_Witness ==
    /\ ret # NoRet
    /\ TwoOverlappingSecondaries
    /\ arg.input.vpc_config.cidr_block[5] = 25
    /\ {<<"vpc_config.cidr_block", 0>>, <<"vpc_config.secondary_cidr_blocks", 0>>}
          \subseteq ret[1]

\* C24 as stated: an 18-prefix VPC with two overlapping secondary ranges produces a
\* violation of the prefix length and a violation of the overlapping secondary ranges
C24_AsStated ==
    (ret # NoRet /\ TwoOverlappingSecondaries /\ arg.input.vpc_config.cidr_block[5] = 18) =>
        {<<"vpc_config.cidr_block", 0>>, <<"vpc_config.secondary_cidr_blocks", 0>>}
            \subseteq ret[1]

\* C25 as stated: a config that validation accepts has the availability zone of every
\* public, private and pod subnet in the account's resolved zone list
C25_AsStated ==
    (ret # NoRet /\ ret[1] = {}) =>
        LET config == ResolvedOf(arg)
            all == AllSubnets(config.vpc_config)
        IN \A i \in 1..Len(all) :
              \E k \in 1..Len(config.aws_config.availability_zones) :
                  all[i].availability_zone = config.aws_config.availability_zones[k]

\* C26 as stated: with private-only cluster access and no NAT gateway, a resolved config
\* in which ecr_api, ecr_dkr, sts or logs is disabled gets a violation on the endpoint
\* block
C26_AsStated ==
    (/\ ret # NoRet
     /\ InputRulesBroken(arg.input) = {}
     /\ arg.access.endpoint_private_access
     /\ ~arg.access.endpoint_public_access
     /\ arg.input.vpc_config.nat_gateway_strategy = NAT_NONE
     /\ \E field \in {"ecr_api", "ecr_dkr", "sts", "logs"} : ~arg.endpoints[field])
        => <<"vpc_config.vpc_endpoints", 0>> \in ret[1]

\* the role tag of a tier
RoleTagKey(subnet_type) ==
    IF subnet_type = "public" THEN "kubernetes.io/role/elb"
    ELSE "kubernetes.io/role/internal-elb"

\* C27 as stated: a tier given custom subnets is resolved to the caller's ranges and
\* zones in the caller's order, and every resolved subnet carries the role tag of its
\* tier (kubernetes.io/role/elb for public, kubernetes.io/role/internal-elb for private
\* and pod) together with the caller's tags
C27_AsStated ==
    ret # NoRet =>
        /\ Len(ret[1]) = Len(arg.custom_subnets)
        /\ \A i \in 1..Len(ret[1]) :
              /\ ret[1][i].cidr_block = arg.custom_subnets[i].cidr_block
              /\ ret[1][i].availability_zone = arg.custom_subnets[i].availability_zone
              /\ arg.custom_subnets[i].tags \subseteq ret[1][i].tags
              /\ \E p \in ret[1][i].tags : p[1] = RoleTagKey(arg.subnet_type)

\* the step is an update request
UpdateAnswered == ret' # NoRet /\ ret'.op = "update"

\* C28: a successful update stores resolve(new input) with the created_at of the config
\* stored before and nothing else of it; an update whose body names another tenant than
\* the addressed one, or whose tenant has no stored config, is refused and changes nothing
C28_UpdateWholesale ==
    [][UpdateAnswered =>
          LET c == ret'.customer_id IN
          /\ (arg[c] = <<>> \/ ret'.request.customer_id # c) => ret'.code # 200
          /\ IF ret'.code = 200
             THEN /\ arg'[c] = <<[resolve_customer_config(ret'.request, clock') EXCEPT
                                     !.created_at = arg[c][1].created_at]>>
                  /\ \A other \in CustomerIds \ {c} : arg'[other] = arg[other]
             ELSE arg' = arg /\ configs' = configs]_vars

\* a config created at time 1 without secondary range was updated later to an input with
\* one: the stored config has the pod subnets of the new input and the old created_at
C28_Witness ==
    /\ ret # NoRet
    /\ ret.op = "update"
    /\ ret.code = 200
    /\ arg[StoredTenant][1].created_at = 1
    /\ arg[StoredTenant][1].updated_at > 1
    /\ Len(arg[StoredTenant][1].vpc_config.pod_subnets) = 3

----------------------------------------------------------------------------
(* Duplicate deliveries of one success event                                              *)

\* the success handling of a stack acted in this step: it wrote the record and scheduled an
\* install
SuccessApplied(customer_id, environment) ==
    /\ last'.kind = "_handle_deployment_succeeded"
    /\ last'.customer_id = customer_id /\ last'.environment = environment
    /\ db' # db
    /\ Background(tasks', "install_addons_after_delay")
          > Background(tasks, "install_addons_after_delay")

\* C29: when the same "update succeeded" event of one attempt is delivered more than once,
\* its success handling is applied exactly once: the handling never writes SUCCEEDED and
\* schedules an install for a record that an earlier delivery of the event has already
\* taken to SUCCEEDED. (No action of this specification starts a new attempt, so a
\* SUCCEEDED record is the same attempt's.)
C29_AsStated ==
    [][ \A e \in Environments :
          SuccessApplied(<<"a">>, e) =>
             db[get_deployment(db, <<"a">>, e)].status # SUCCEEDED
      ]_vars

----------------------------------------------------------------------------
(* Progress of the background tasks                                                       *)

\* the request for the stack has just been answered 202
Accepted(kind, customer_id, environment) ==
    /\ last.kind = kind
    /\ last.customer_id = customer_id /\ last.environment = environment
    /\ resp.code = 202

\* a task of the kind for the stack has just made its last write, and none is left
TaskEnded(kind, customer_id, environment) ==
    /\ last.kind = kind
    /\ last.customer_id = customer_id /\ last.environment = environment
    /\ last.operation = "triggered" \/ last.outcome = "raised"
    /\ \A t \in Running(tasks) :
          ~(t.kind = kind /\ t.customer_id = customer_id /\ t.environment = environment)

\* what the task of run_deployment leaves: the run of the engine it started, or its failure
DeployOutcome(customer_id, environment) ==
    LET deployment == get_deployment(db, customer_id, environment) IN
    /\ TaskEnded("run_deployment", customer_id, environment)
    /\ deployment # 0
    /\ \/ /\ last.operation = "triggered"
          /\ db[deployment].status = IN_PROGRESS
          /\ db[deployment].pulumi_deployment_id \in {RunId("update", n) : n \in 2..engine}
       \/ /\ last.outcome = "raised"
          /\ db[deployment].status = FAILED
          /\ ~Falsy(db[deployment].error_message)

\* what the task of run_destroy leaves: the destroy run it started, or its failure
DestroyOutcome(customer_id, environment) ==
    LET deployment == get_deployment(db, customer_id, environment) IN
    /\ TaskEnded("run_destroy", customer_id, environment)
    /\ deployment # 0
    /\ \/ /\ last.operation = "triggered"
          /\ db[deployment].status = DESTROYING
          /\ db[deployment].pulumi_deployment_id \in {RunId("destroy", n) : n \in 2..engine}
       \/ /\ last.outcome = "raised"
          /\ db[deployment].status = FAILED
          /\ SubSeq(db[deployment].error_message, 1, 1) = <<"Destroy failed: ">>

\* C30: when the event loop runs every ready task, every accepted create or redeploy is
\* followed by a state in which its task has left the record out of PENDING, in IN_PROGRESS
\* with the run identifier the engine gave for it or in FAILED with an error message; and
\* every accepted destroy is followed by a state in which its task has left the record in
\* DESTROYING with the identifier of the destroy run or in FAILED with a message that
\* starts with "Destroy failed: ".
C30_BackgroundProgress ==
    \A c \in CustomerIds, e \in Environments :
       /\ Accepted("deploy", c, e) ~> DeployOutcome(c, e)
       /\ Accepted("destroy", c, e) ~> DestroyOutcome(c, e)

\* a redeploy of a stack that had a settled record has been run by its task up to the
\* second write of IN_PROGRESS, with the new run recorded in place of the earlier one
C30_Witness ==
    /\ DeployOutcome(<<"a">>, <<"d">>)
    /\ last.operation = "triggered"
    /\ db[get_deployment(db, <<"a">>, <<"d">>)].pulumi_deployment_id = RunId("update", 2)
    /\ db[get_deployment(db, <<"a">>, <<"d">>)].created_at = 0
    /\ clock = 3

----------------------------------------------------------------------------
(* One engine operation at a time                                                         *)

\* the tasks started by requests, as opposed to those started by webhooks
RequestTasks == {"run_deployment", "run_destroy"}

\* the request tasks of the stack whose call to the engine has been accepted and whose run
\* identifier is not yet written to the record
Dispatched(ts, customer_id, environment) ==
    {t \in Running(ts) : /\ t.kind \in RequestTasks
                         /\ t.customer_id = customer_id /\ t.environment = environment
                         /\ t.pc = "triggered"}

\* a request task of the stack has its call to the engine accepted in this step
Dispatches(customer_id, environment) ==
    /\ last'.kind \in RequestTasks
    /\ last'.customer_id = customer_id /\ last'.environment = environment
    /\ last'.operation = "trigger_deployment" /\ last'.outcome = "ok"
    /\ engine' = engine + 1

\* C31: for one stack at most one engine operation is outstanding at a time: a request
\* accepted before the task of an earlier accepted request has written IN_PROGRESS or
\* DESTROYING leads to no second dispatch, so no task of the stack dispatches while another
\* task of the stack has just dispatched and has not yet recorded its run.
C31_AsStated ==
    [][ Dispatches(TheCustomer, TheEnvironment) =>
           Dispatched(tasks, TheCustomer, TheEnvironment) = {}
      ]_vars

----------------------------------------------------------------------------
(* A recorded outcome and the task's last write                                           *)

\* the messages a webhook or a poll records with a failure, as opposed to the str(e) of a
\* task's own exception handler
ReportedFailures == {<<"boom">>, <<"Deployment failed">>, <<"Operation failed">>}

\* the record holds the outcome of an update as a webhook or a poll records it
UpdateOutcomeRecorded(row) ==
    \/ row.status = SUCCEEDED
    \/ row.status = FAILED /\ row.error_message \in ReportedFailures

\* the record holds the outcome of a destroy as a webhook or a poll records it
DestroyOutcomeRecorded(row) ==
    \/ row.status = DESTROYED
    \/ /\ row.status = FAILED
       /\ row.error_message \in {<<"Destroy failed: ">> \o f : f \in ReportedFailures \cup {<<"Destroy failed">>}}

\* the state right after a request for stack a-d was accepted, its record having succeeded
\* before: a redeploy (record PENDING, run_deployment scheduled) or a destroy (run_destroy
\* scheduled, record untouched)
InitOutcome ==
    /\ variant \in {"api", "automation"}
    /\ secret = <<"s">>
    /\ configs = {<<"a">>}
    /\ clock = 0
    /\ engine = 1
    /\ last = NoRequest
    /\ resp = NoResp
    /\ NothingInstalled
    /\ arg = NoArg
    /\ ret = NoRet
    /\ \E kind \in RequestTasks :
          /\ tasks = add_task(EmptyBag, kind, TheCustomer, TheEnvironment)
          /\ db = IF kind = "run_deployment"
                  THEN update_deployment_status(SettledTable(SUCCEEDED),
                                                StackName(TheCustomer, TheEnvironment),
                                                PENDING, None, None, None, 0)
                  ELSE SettledTable(SUCCEEDED)

\* the engine has taken the operation from the request task, whose coroutine has not yet
\* gone on to record the run
OutstandingRun(operation) ==
    \E t \in Dispatched(tasks, TheCustomer, TheEnvironment) : t.result[1] = operation

\* the engine reports the end of the run it was just given
EngineReports ==
    \E operation \in {"update", "destroy"}, outcome \in {"succeeded", "failed"} :
       \E message \in MessagesOf(outcome) :
          /\ OutstandingRun(operation)
          /\ Handle(Request("webhook", EmptyStr, EmptyStr,
                            StackIdentifier(variant, TheCustomer, TheEnvironment),
                            operation, outcome, message))
          /\ pulumi_deployment_webhook(StackIdentifier(variant, TheCustomer, TheEnvironment),
                                       operation, outcome, message)

NextOutcome ==
    \/ BackgroundStep
    \/ EngineReports
    \/ \E t \in Running(tasks), raised \in BOOLEAN :
         /\ Handle(TaskStep(t, Raised(raised)))
         /\ _trigger_auto_destroy(t, raised)
    \/ \E t \in Running(tasks), outputs \in EngineOutputs, raised \in BOOLEAN :
         /\ Handle(TaskStep(t, Raised(raised)))
         /\ _handle_deployment_succeeded(t, outputs, raised)
    \/ \E t \in Running(tasks) :
         /\ Handle(TaskStep(t, "ok"))
         /\ install_addons_after_delay(t)
    \/ Acknowledge

\* one accepted request, its task, and the engine's reports of the run of that task
SpecOutcome == InitOutcome /\ [][NextOutcome]_vars

\* the request task of the kind makes its last write for the stack in this step
LastWrite(kind) ==
    /\ last'.kind = kind
    /\ last'.customer_id = TheCustomer /\ last'.environment = TheEnvironment
    /\ last'.operation = "triggered"

\* C32: once a webhook or a poll has recorded the outcome of an attempt (SUCCEEDED or
\* FAILED), the later write of the attempt's own run_deployment task does not put the status
\* back to IN_PROGRESS; and once DESTROYED or a destroy failure is recorded, the later write
\* of the run_destroy task does not put it back to DESTROYING.
C32_AsStated ==
    [][ /\ LastWrite("run_deployment") /\ UpdateOutcomeRecorded(db[TheRow(db)])
            => db'[TheRow(db)].status # IN_PROGRESS
        /\ LastWrite("run_destroy") /\ DestroyOutcomeRecorded(db[TheRow(db)])
            => db'[TheRow(db)].status # DESTROYING
      ]_vars

----------------------------------------------------------------------------
(* The automatic destroy after a failed update: webhooks.py, _handle_deployment_failed    *)
(* and _trigger_auto_destroy, next to the requests of deployments.py                      *)

\* the update of stack a-d is running, its run recorded; the engine reports its failure,
\* callers redeploy or destroy, and the tasks run
NextAutoDestroy ==
    \/ \E message \in WebhookMessages :
         /\ Handle(Request("webhook", EmptyStr, EmptyStr,
                           StackIdentifier(variant, TheCustomer, TheEnvironment),
                           "update", "failed", message))
         /\ pulumi_deployment_webhook(StackIdentifier(variant, TheCustomer, TheEnvironment),
                                      "update", "failed", message)
    \/ /\ Handle(Request("deploy", TheCustomer, TheEnvironment, EmptyStr, "", "", EmptyStr))
       /\ deploy(TheCustomer, TheEnvironment)
    \/ /\ Handle(Request("destroy", TheCustomer, TheEnvironment, EmptyStr, "", "confirm", EmptyStr))
       /\ destroy(TheCustomer, TheEnvironment, TRUE)
    \/ BackgroundStep
    \/ \E t \in Running(tasks), raised \in BOOLEAN :
         /\ Handle(TaskStep(t, Raised(raised)))
         /\ _trigger_auto_destroy(t, raised)
    \/ Acknowledge

SpecAutoDestroy == InitAddon /\ [][NextAutoDestroy]_vars

\* the automatic destroy of the stack takes the step that leaves the given point of its code
AutoDestroyStep(pc) ==
    /\ last'.kind = "_trigger_auto_destroy"
    /\ last'.customer_id = TheCustomer /\ last'.environment = TheEnvironment
    /\ last'.operation = pc

\* C33: the automatic destroy scheduled after an update failure changes the record only if
\* it is still in the FAILED state of that failure: when it starts on a record that a
\* redeploy or a manual destroy has moved on, it writes nothing; and it dispatches a destroy
\* only for the record it has itself put in DESTROYING.
C33_AsStated ==
    [][ /\ AutoDestroyStep("start") /\ db[TheRow(db)].status # FAILED => db' = db
        /\ AutoDestroyStep("trigger_deployment") /\ db[TheRow(db)].status # DESTROYING
              => engine' = engine /\ db' = db
      ]_vars

----------------------------------------------------------------------------
(* Outcomes of an earlier run: the status poll of deployments.py and webhooks delivered   *)
(* late, after a new request for the stack was accepted                                   *)

\* the run of the earlier attempt, which succeeded: the engine answers a poll of it with
\* "succeeded" and may deliver its "update succeeded" event again
EarlierRun == RunId("update", 1)

\* one accepted request and its task; callers poll the status, the event of the earlier run
\* is delivered late, and the engine reports the run of the new attempt
NextStale ==
    \/ BackgroundStep
    \/ /\ Handle(Request("status", TheCustomer, TheEnvironment, EmptyStr, "", "", EmptyStr))
       /\ get_deployment_status(TheCustomer, TheEnvironment)
    \/ \E t \in Running(tasks), status_value \in PolledStatuses, raised \in BOOLEAN :
         \E message \in MessagesOf(status_value) :
            /\ t.snap.pulumi_deployment_id = EarlierRun => status_value = "succeeded"
            /\ Handle(TaskStep(t, IF raised THEN "raised" ELSE status_value))
            /\ get_deployment_status_polled(t, status_value, message, raised)
    \/ \E t \in Running(tasks), outputs \in EngineOutputs, raised \in BOOLEAN :
         /\ Handle(TaskStep(t, Raised(raised)))
         /\ get_deployment_status_outputs(t, outputs, raised)
    \/ /\ Handle(Request("webhook", EmptyStr, EmptyStr,
                         StackIdentifier(variant, TheCustomer, TheEnvironment),
                         "update", "succeeded", EmptyStr))
       /\ pulumi_deployment_webhook(StackIdentifier(variant, TheCustomer, TheEnvironment),
                                    "update", "succeeded", EmptyStr)
    \/ EngineReports
    \/ \E t \in Running(tasks), outputs \in EngineOutputs, raised \in BOOLEAN :
         /\ Handle(TaskStep(t, Raised(raised)))
         /\ _handle_deployment_succeeded(t, outputs, raised)
    \/ \E t \in Running(tasks), raised \in BOOLEAN :
         /\ Handle(TaskStep(t, Raised(raised)))
         /\ _trigger_auto_destroy(t, raised)
    \/ \E t \in Running(tasks) :
         /\ Handle(TaskStep(t, "ok"))
         /\ install_addons_after_delay(t)
    \/ Acknowledge

SpecStale == InitOutcome /\ [][NextStale]_vars

\* a request for the stack was accepted and its task has not yet given the engine its
\* operation: the attempt has no run, and whatever the engine reports is of an earlier one
AttemptNotDispatched ==
    \E t \in Running(tasks) :
       /\ t.kind \in RequestTasks
       /\ t.customer_id = TheCustomer /\ t.environment = TheEnvironment
       /\ t.pc # "triggered"

\* a webhook, its success handling or a status poll moves the record to an outcome in this
\* step
OutcomeApplied ==
    /\ last'.kind \in {"webhook", "_handle_deployment_succeeded", "get_deployment_status"}
    /\ db'[TheRow(db)].status \in {SUCCEEDED, FAILED, DESTROYED}
    /\ db'[TheRow(db)].status # db[TheRow(db)].status

\* C34: an engine outcome is applied to a record only if the run of the record's current
\* attempt produced it: after a redeploy or a destroy is accepted, and as long as its task
\* has not dispatched the new run, neither a status poll nor a webhook moves the record to
\* SUCCEEDED, FAILED or DESTROYED.
C34_AsStated ==
    [][ AttemptNotDispatched => ~OutcomeApplied ]_vars

----------------------------------------------------------------------------
(* The poll and the webhook as two observers of one outcome                               *)

\* the status poll of the stack writes the given status in this step
PollWrites(status_value) ==
    /\ last'.kind = "get_deployment_status"
    /\ last'.customer_id = TheCustomer /\ last'.environment = TheEnvironment
    /\ db' # db
    /\ db'[TheRow(db)].status = status_value

\* a task of the kind is scheduled in this step
Scheduled(kind) == Background(tasks', kind) > Background(tasks, kind)

\* C35: learning the outcome of an update by polling has the effect of the webhook: a polled
\* success persists the outputs, sets SUCCEEDED and schedules the delayed addon install, and
\* a polled failure of an update sets FAILED and schedules the automatic destroy.
C35_AsStated ==
    [][ /\ PollWrites(SUCCEEDED) =>
              /\ db'[TheRow(db)].outputs \in EngineOutputs
              /\ Scheduled("install_addons_after_delay")
        /\ PollWrites(FAILED) /\ db[TheRow(db)].status = IN_PROGRESS =>
              Scheduled("_trigger_auto_destroy")
      ]_vars

----------------------------------------------------------------------------
(* The settling delay and later requests: the delayed install of webhooks.py and          *)
(* deployments.py next to POST /deployments and POST .../destroy                          *)

\* the installs of stack a-d, and the requests and tasks that move its record on
NextSettle ==
    \/ InstallerNext(Environments)
    \/ /\ Handle(Request("deploy", TheCustomer, TheEnvironment, EmptyStr, "", "", EmptyStr))
       /\ deploy(TheCustomer, TheEnvironment)
    \/ /\ Handle(Request("destroy", TheCustomer, TheEnvironment, EmptyStr, "", "confirm", EmptyStr))
       /\ destroy(TheCustomer, TheEnvironment, TRUE)
    \/ BackgroundStep

SpecSettle == InitAddon /\ [][NextSettle]_vars

\* the automatic install of the stack sends its command to the remote executor in this step
AutoInstallSends ==
    /\ last'.kind = "install_addons_after_delay"
    /\ last'.customer_id = TheCustomer /\ last'.environment = TheEnvironment
    /\ ssm' # ssm

\* C36: when the record has left SUCCEEDED during the settling delay (a destroy or a
\* redeploy was accepted and its task has changed the status), the pending automatic install
\* sends no command when the delay is over: it never sends for a record that the task of a
\* later request has put in IN_PROGRESS or DESTROYING.
C36_AsStated ==
    [][ AutoInstallSends => db[TheRow(db)].status \notin {IN_PROGRESS, DESTROYING} ]_vars

----------------------------------------------------------------------------
(* The command id of a status request: api/routes/cluster.py, get_argocd_install_status,  *)
(* and AddonInstallerService.get_install_status                                           *)

\* the query parameter command_id as the request carries it: absent, or the id
CommandIdParam(command_id) == IF command_id = 0 THEN EmptyStr ELSE <<command_id>>

\* status requests with and without a command id, after installs have been dispatched and
\* saved
NextCommand ==
    \/ \E c \in configs, e \in AddonEnvironments, command_id \in 0..MaxCommands,
          invocation \in PolledInvocations :
         /\ Receive(Request("addons/argocd/status", c, e, EmptyStr, "", invocation,
                            CommandIdParam(command_id)))
         /\ get_argocd_install_status(c, e, command_id, invocation)
    \/ Acknowledge

SpecCommand == InitStatus /\ [][NextCommand]_vars

\* C37: a status request that supplies a command id is answered with the status of exactly
\* that command, also when a later install of the addon has been dispatched since; the
\* persisted most recent command id is used only when the request supplies none.
C37_AsStated ==
    [][ last'.kind = "addons/argocd/status" /\ resp'.code = 200 =>
            resp'.ssm_command_id =
               IF last'.message # EmptyStr
               THEN last'.message[1]
               ELSE _load_addon_state(addons, last'.customer_id, last'.environment,
                                      StatusAddonName).last_command_id
      ]_vars

----------------------------------------------------------------------------
(* routes/configs.py: create, update, validate-only and delete calls for every tenant *)
(* over the stored configs                                                           *)

\* POST /configs/validate over the store: the answer only, nothing saved
validate_config_stored(request) ==
    \E now \in Nows :
        LET resolved == resolve_customer_config(request, now) IN
        /\ clock' = now
        /\ ret' = ConfigAnswer("validate", request.customer_id, request,
                               IF validate_config(request, resolved) = {} THEN 200 ELSE 400)
        /\ UNCHANGED <<variant, secret, configs, db, tasks, engine, last, resp, arg, addons,
                       ssm, time>>

\* the calls are made while the clock reads at most this
MaxConfigClock == 2

\* the requests of the calls: both tenants, a range that validates and one that does not
ConfigInputs == {request \in ResolveInputs : request.vpc_config.secondary_cidr_blocks = <<>>}

NextConfigs ==
    \/ \E request \in ConfigInputs :
          create_config_stored(request) /\ clock' <= MaxConfigClock
    \/ \E customer_id \in CustomerIds, request \in ConfigInputs :
          update_config(customer_id, request) /\ clock' <= MaxConfigClock
    \/ \E request \in ConfigInputs :
          validate_config_stored(request) /\ clock' <= MaxConfigClock
    \/ \E customer_id \in CustomerIds : delete_config_stored(customer_id)

SpecConfigs == InitStore /\ [][NextConfigs]_vars

\* the stored config is what the request resolves to at some time, with the creation time
\* an update carries over from the config it replaces
ResolutionOf(config, request) ==
    \E now \in 0..MaxClock :
        config = [resolve_customer_config(request, now) EXCEPT
                      !.created_at = config.created_at]

\* the request passes the input phase and the stored config the resolved phase
PassedBothPhases(request, config) ==
    /\ validate_input_config(request) = {}
    /\ validate_resolved_config(config) = {}

\* every file of the store holds a validated resolution under its own tenant id
StoreValid ==
    \A customer_id \in CustomerIds :
        /\ customer_id \in configs <=> StoredConfig(customer_id) # <<>>
        /\ StoredConfig(customer_id) # <<>> =>
              LET config == StoredConfig(customer_id)[1] IN
              /\ config.customer_id = customer_id
              /\ \E request \in ConfigInputs :
                    /\ request.customer_id = customer_id
                    /\ ResolutionOf(config, request)
                    /\ PassedBothPhases(request, config)

\* the call just answered: a create or update whose request fails validation, a
\* validate-only call, or a create for a tenant that had a config
LeavesStore ==
    \/ /\ ret'.op \in {"create", "update"}
       /\ validate_config(ret'.request,
                          resolve_customer_config(ret'.request, clock')) # {}
    \/ ret'.op = "validate"
    \/ ret'.op = "create" /\ StoredConfig(ret'.customer_id) # <<>>

\* C38: after any sequence of create, update, validate-only and delete calls every stored
\* config is the resolution of an input that passed both validation phases and is stored
\* under its own tenant id; a create or update that fails validation, a validate-only
\* call and a create for a tenant that has a config leave the store unchanged.
C38_StoreValid ==
    /\ []StoreValid
    /\ [][ LeavesStore => arg' = arg /\ configs' = configs ]_vars

\* both tenants have a config, one replaced by an update after its creation, and the last
\* call was an update of a stored config that failed validation
C38_Witness ==
    /\ \A customer_id \in CustomerIds : StoredConfig(customer_id) # <<>>
    /\ \E customer_id \in CustomerIds :
          StoredConfig(customer_id)[1].updated_at > StoredConfig(customer_id)[1].created_at
    /\ ret # NoRet
    /\ ret.op = "update"
    /\ ret.code = 400
    /\ ret.request.customer_id = ret.customer_id

====
